---- MODULE Spec2Model ----
(***************************************************************************)
(* scrimshady (src/src/main.rs): a window that captures the desktop region *)
(* behind it through DXGI output duplication, pads the captured region     *)
(* with a compute pass, runs a pixel shader over it and presents it.       *)
(* The model is the window procedure and everything it calls, one action   *)
(* per window message, each action the whole handler.                      *)
(***************************************************************************)
EXTENDS Integers, Sequences, FiniteSets, TLC

VARIABLES
    state,      \* the CaptureState installed on the window (main.rs:36-64)
    window,     \* the OS window: client origin on screen, client size, z-order, affinity
    gpu,        \* device context and swap chain: buffer size, constant buffers, bindings
    calls,      \* the OS / D3D calls issued by the handler of the last message, in order
    last,       \* the last message processed and how its handler ended
    run         \* "running", "quit" (message loop left) or "aborted" (panic in wndproc)

vars == <<state, window, gpu, calls, last, run>>

\* ------------------------------------------------------------------ bounds
\* Width and height of the duplicated output (screen_desc.Width / .Height).
ScreenW == 1
ScreenH == 1
\* Largest client width / height the shell gives the window.
MaxClient == 2
\* The client origin lies in -MaxOff .. 0 on both axes: a window wider than the screen
\* at origin 0 hangs over the right edge, one at a negative origin over the left edge.
MaxOff == 1

\* ------------------------------------------------------- program constants
GroupSize == 8
ID_SAVE == 1001
ID_ALWAYS_ON_TOP == 1002
ID_TOGGLE_PAUSE == 1003
ID_SHADER_BASE == 2000
ID_SHADER_END == ID_SHADER_BASE + 10
\* The roster: four simple programs and the tile program pushed last.
NumSimpleShaders == 4
InitialShader == 1

\* ------------------------------------------------------------------ helpers
Max(a, b) == IF a >= b THEN a ELSE b
Min(a, b) == IF a <= b THEN a ELSE b

\* Option<T>: None is the empty sequence, Some(x) the one-element sequence.
None == <<>>
Some(x) == <<x>>
IsNone(o) == o = <<>>
IsSome(o) == o # <<>>
Unwrap(o) == o[1]

\* HRESULT classes the handlers tell apart.
OK == "S_OK"
ACCESS_LOST == "DXGI_ERROR_ACCESS_LOST"
WAIT_TIMEOUT == "DXGI_ERROR_WAIT_TIMEOUT"
E_OTHER == "E_FAIL"
PANIC == "panic"
INVALID_CALL == "DXGI_ERROR_INVALID_CALL"
ErrorCodes == {ACCESS_LOST, E_OTHER}

\* --------------------------------------------------------------- pixels
\* A pixel value says where it comes from: <<1, x, y>> is the pixel (x, y) of the
\* frame acquired in the current tick, Old a pixel written in an earlier tick,
\* Undef the content of a texture that was never written.
Undef == <<0, 0, 0>>
Old == <<2, 0, 0>>
FramePixel(x, y) == <<1, x, y>>

\* The frame handed out by AcquireNextFrame: the whole output.
FrameTexture == [w |-> ScreenW, h |-> ScreenH,
                 px |-> [p \in (0..(ScreenW - 1)) \X (0..(ScreenH - 1)) |-> FramePixel(p[1], p[2])]]

\* CreateTexture2D without initial data.
NewTexture(w, h) == [w |-> w, h |-> h,
                     px |-> [p \in (0..(w - 1)) \X (0..(h - 1)) |-> Undef]]

\* A view of a texture (SRV / UAV / RTV) remembers the size of its texture.
ViewOf(tex) == [w |-> tex.w, h |-> tex.h]

\* When a handler starts, everything written by earlier handlers is old.
AgeTexture(tex) == [tex EXCEPT !.px = [p \in DOMAIN @ |-> IF @[p] = Undef THEN Undef ELSE Old]]
AgeOption(o) == IF IsNone(o) THEN o ELSE Some(AgeTexture(Unwrap(o)))

\* ------------------------------------------------- handle_frame: geometry
\* Source box (may extend beyond screen bounds), lines 1252-1256.
SourceBox(source_rect, width, height) ==
    [left |-> source_rect.left, top |-> source_rect.top,
     right |-> source_rect.left + width, bottom |-> source_rect.top + height]

\* Mutant of ExtendRight: the right overhang measured from the left edge.
ExtendRight_from_left(src, screenW) == Max(src.left - screenW, 0)

\* How much the source box extends beyond the screen, lines 1258-1262.
ExtendLeft(src) == Max(0 - src.left, 0)
ExtendTop(src) == Max(0 - src.top, 0)
ExtendRight(src, screenW) == Max(src.right - screenW, 0)
ExtendBottom(src, screenH) == Max(src.bottom - screenH, 0)

\* Extended texture size, lines 1264-1266.
ExtendedWidth(width, src, screenW) == width + ExtendLeft(src) + ExtendRight(src, screenW)
ExtendedHeight(height, src, screenH) == height + ExtendTop(src) + ExtendBottom(src, screenH)

\* Source box clamped to valid screen coordinates, lines 1356-1360.
ClampedBox(src, screenW, screenH) ==
    [left |-> Min(Max(src.left, 0), screenW), top |-> Min(Max(src.top, 0), screenH),
     right |-> Min(Max(src.right, 0), screenW), bottom |-> Min(Max(src.bottom, 0), screenH)]

\* Mutant of CopySubresourceRegion: the copy fills the whole destination, repeating the
\* last column and row of the box.
CopySubresourceRegion_fills_destination(dst, src, box) ==
    [dst EXCEPT !.px = [p \in DOMAIN @ |->
        src.px[<<box.left + Min(p[1], box.right - box.left - 1),
                 box.top + Min(p[2], box.bottom - box.top - 1)>>]]]

\* ID3D11DeviceContext::CopySubresourceRegion(dst, 0, 0, 0, 0, src, 0, box):
\* the box of src lands at the origin of dst; the rest of dst is not written.
CopySubresourceRegion(dst, src, box) ==
    [dst EXCEPT !.px = [p \in DOMAIN @ |->
        IF p[1] < box.right - box.left /\ p[2] < box.bottom - box.top
        THEN src.px[<<box.left + p[1], box.top + p[2]>>]
        ELSE @[p]]]

\* HLSL clamp(x, lo, hi) = min(max(x, lo), hi).
Clamp(x, lo, hi) == Min(Max(x, lo), hi)

\* EXTEND_COMPUTE_SHADER main, lines 117-121: the staging position a destination
\* position reads.
SrcPos(dstPos, params) ==
    <<Clamp(dstPos[1] - params.src_offset[1], 0, params.src_size[1] - 1),
      Clamp(dstPos[2] - params.src_offset[2], 0, params.src_size[2] - 1)>>

\* Texture2D.Load: a position outside the resource reads zero.
Load(tex, pos) == IF pos \in DOMAIN tex.px THEN tex.px[pos] ELSE Undef

\* u32::div_ceil.
DivCeil(a, b) == (a + b - 1) \div b

\* Dispatch(dispatch_x, dispatch_y, 1) of the extend shader with [numthreads(8, 8, 1)]:
\* thread (x, y) returns when it is outside dstSize (line 113), else writes
\* dst[(x, y)] from src at SrcPos; a write outside the bound resource is dropped.
Dispatch(dispatch_x, dispatch_y, params, src, dst) ==
    [dst EXCEPT !.px = [p \in DOMAIN @ |->
        IF /\ p[1] < GroupSize * dispatch_x /\ p[2] < GroupSize * dispatch_y
           /\ p[1] < params.dst_size[1] /\ p[2] < params.dst_size[2]
        THEN Load(src, SrcPos(p, params))
        ELSE @[p]]]

\* ------------------------------------------------------- sequential code
\* A handler's code runs on a context c: the CaptureState, the GPU state, the window,
\* the calls issued so far and the result so far; a step is skipped once c.res is an error
\* (the ? operator returned) or a panic.
Context(st, g, win) ==
    [state |-> [st EXCEPT !.staging_texture = AgeOption(@), !.extended_texture = AgeOption(@)],
     gpu |-> g, window |-> win, calls |-> <<>>, res |-> OK]
Call(c, name, hr) == [c EXCEPT !.calls = Append(@, <<name, hr>>)]
Return(c, hr) == [c EXCEPT !.res = hr]
\* A call that the environment makes fail: f.at names the failing call, f.code its HRESULT.
NoFailure == [at |-> "none", code |-> OK]
Hr(f, point) == IF f.at = point THEN f.code ELSE OK
\* call(...)? : issue the call, return its error if it failed.
Try(c, point, f) ==
    IF Hr(f, point) = OK THEN Call(c, point, OK) ELSE Return(Call(c, point, f.code), f.code)

\* ----------------------------------------------------------- handle_frame
\* Lines 1241-1266: client size, screen size, source box, overhang, extended size.
FrameLocals(st, win) ==
    LET width == win.client[1]
        height == win.client[2]
        src == SourceBox(st.source_rect, width, height)
    IN [width |-> width, height |-> height, src |-> src,
        extend_left |-> ExtendLeft(src), extend_top |-> ExtendTop(src),
        extend_right |-> ExtendRight(src, ScreenW), extend_bottom |-> ExtendBottom(src, ScreenH),
        extended_width |-> ExtendedWidth(width, src, ScreenW),
        extended_height |-> ExtendedHeight(height, src, ScreenH)]

\* Mutant of CreateStagingIfNeeded: the texture is allocated on every frame.
CreateStagingIfNeeded_every_frame(c, L, f) ==
    IF c.res # OK THEN c
    ELSE LET c1 == Try(c, "CreateTexture2D(staging)", f)
         IN IF c1.res # OK THEN c1
            ELSE [c1 EXCEPT !.state.staging_texture = Some(NewTexture(L.width, L.height))]

\* Lines 1268-1291: create staging texture if needed (matches window size).
CreateStagingIfNeeded(c, L, f) ==
    IF c.res # OK \/ IsSome(c.state.staging_texture) THEN c
    ELSE LET c1 == Try(c, "CreateTexture2D(staging)", f)
         IN IF c1.res # OK THEN c1
            ELSE [c1 EXCEPT !.state.staging_texture = Some(NewTexture(L.width, L.height))]

\* Lines 1293-1354: create extended texture if needed, then its UAV and its SRV.
CreateExtendedIfNeeded(c, L, f) ==
    IF c.res # OK \/ IsSome(c.state.extended_texture) THEN c
    ELSE LET c1 == Try(c, "CreateTexture2D(extended)", f)
             tex == NewTexture(L.extended_width, L.extended_height)
             c2 == IF c1.res # OK THEN c1
                   ELSE Try([c1 EXCEPT !.state.extended_texture = Some(tex)],
                            "CreateUnorderedAccessView", f)
             c3 == IF c2.res # OK THEN c2
                   ELSE Try([c2 EXCEPT !.state.extended_uav = Some(ViewOf(tex))],
                            "CreateShaderResourceView(extended)", f)
         IN IF c3.res # OK THEN c3
            ELSE [c3 EXCEPT !.state.extended_srv = Some(ViewOf(tex))]

\* Lines 1356-1390: copy the valid region to the staging texture.
CopyValidRegion(c, L) ==
    IF c.res # OK THEN c
    ELSE LET box == ClampedBox(L.src, ScreenW, ScreenH)
             dst_texture == Unwrap(c.state.staging_texture)
         IN IF box.right > box.left /\ box.bottom > box.top
            THEN [Call(c, "CopySubresourceRegion", OK) EXCEPT
                    !.state.staging_texture =
                        Some(CopySubresourceRegion(dst_texture, FrameTexture, box))]
            ELSE c

\* Lines 1392-1412: create SRV for staging texture if needed.
CreateStagingSrvIfNeeded(c, f) ==
    IF c.res # OK \/ IsSome(c.state.shader_resource_view) THEN c
    ELSE LET c1 == Try(c, "CreateShaderResourceView(staging)", f)
         IN IF c1.res # OK THEN c1
            ELSE [c1 EXCEPT !.state.shader_resource_view =
                                Some(ViewOf(Unwrap(c.state.staging_texture)))]

\* Lines 1419-1424: the parameters of the extend pass.
ExtendParams(L) ==
    [src_size |-> <<L.width, L.height>>,
     dst_size |-> <<L.extended_width, L.extended_height>>,
     src_offset |-> <<L.extend_left, L.extend_top>>]

\* What is bound to pixel-shader resource slot 0 and to the compute stage (shader,
\* resource slot 0, output slot 0).
Bindings(g) ==
    [ps_srv0 |-> g.ps_srv0, cs_shader |-> g.cs_shader, cs_srv0 |-> g.cs_srv0,
     cs_uav0 |-> g.cs_uav0]

\* Mutant of RunExtendCompute: pixel-shader resource slot 0 is not unbound before the
\* compute pass.
RunExtendCompute_keeps_pixel_input(c, L, f) ==
    IF c.res # OK THEN c
    ELSE LET c1 == Try(c, "Map(extend_params)", f)
             params == ExtendParams(L)
             dispatch_x == DivCeil(L.extended_width, GroupSize)
             dispatch_y == DivCeil(L.extended_height, GroupSize)
             c2 == [c1 EXCEPT !.gpu.cs_shader = TRUE]
             c3 == [c2 EXCEPT !.gpu.cs_srv0 = c2.state.shader_resource_view]
             c4 == [c3 EXCEPT !.gpu.cs_uav0 = c3.state.extended_uav]
         IN IF c1.res # OK THEN c1
            ELSE IF IsNone(c2.state.shader_resource_view) THEN Return(c2, PANIC)
            ELSE IF IsNone(c3.state.extended_uav) THEN Return(c3, PANIC)
            ELSE [c4 EXCEPT
                    !.calls = Append(@, <<"Dispatch", OK, params, <<dispatch_x, dispatch_y>>,
                                          Bindings(c4.gpu)>>),
                    !.state.extended_texture =
                        Some(Dispatch(dispatch_x, dispatch_y, params,
                                      Unwrap(c4.state.staging_texture),
                                      Unwrap(c4.state.extended_texture))),
                    !.gpu.cs_shader = FALSE,
                    !.gpu.cs_srv0 = None,
                    !.gpu.cs_uav0 = None]

\* Lines 1414-1466: run compute shader to extend the texture with edge padding. Pixel-
\* shader resource slot 0 is unbound (line 1417), the parameters are mapped, the compute
\* shader (line 1441), its input view (1445-1448) and its output view (1449-1454) are
\* bound, the dispatch runs and the three are unbound again (1461-1465). The Dispatch
\* entry of the call log carries the bindings at the dispatch.
RunExtendCompute(c, L, f) ==
    IF c.res # OK THEN c
    ELSE LET c1 == Try([c EXCEPT !.gpu.ps_srv0 = None], "Map(extend_params)", f)
             params == ExtendParams(L)
             dispatch_x == DivCeil(L.extended_width, GroupSize)
             dispatch_y == DivCeil(L.extended_height, GroupSize)
             c2 == [c1 EXCEPT !.gpu.cs_shader = TRUE]
             c3 == [c2 EXCEPT !.gpu.cs_srv0 = c2.state.shader_resource_view]
             c4 == [c3 EXCEPT !.gpu.cs_uav0 = c3.state.extended_uav]
         IN IF c1.res # OK THEN c1
            ELSE IF IsNone(c2.state.shader_resource_view) THEN Return(c2, PANIC)
            ELSE IF IsNone(c3.state.extended_uav) THEN Return(c3, PANIC)
            ELSE [c4 EXCEPT
                    !.calls = Append(@, <<"Dispatch", OK, params, <<dispatch_x, dispatch_y>>,
                                          Bindings(c4.gpu)>>),
                    !.state.extended_texture =
                        Some(Dispatch(dispatch_x, dispatch_y, params,
                                      Unwrap(c4.state.staging_texture),
                                      Unwrap(c4.state.extended_texture))),
                    !.gpu.cs_shader = FALSE,
                    !.gpu.cs_srv0 = None,
                    !.gpu.cs_uav0 = None]

\* Mutant of UpdateTimeBuffer: the time buffer is bound to slot b0 only while the slot
\* is empty.
UpdateTimeBuffer_binds_once(c, f) ==
    IF c.res # OK THEN c
    ELSE LET c1 == Try(c, "Map(time)", f)
         IN IF c1.res # OK \/ c1.gpu.ps_cb0 # "none" THEN c1
            ELSE [c1 EXCEPT !.gpu.ps_cb0 = "time"]

\* Lines 1468-1486: update the time buffer and bind it to pixel-shader slot b0.
UpdateTimeBuffer(c, f) ==
    IF c.res # OK THEN c
    ELSE LET c1 == Try(c, "Map(time)", f)
         IN IF c1.res # OK THEN c1 ELSE [c1 EXCEPT !.gpu.ps_cb0 = "time"]

\* Lines 1488-1521: render target, viewport, clear.
SetUpRendering(c, f) ==
    IF c.res # OK THEN c
    ELSE IF IsNone(c.state.render_target_view) THEN Return(c, PANIC)
    ELSE LET c1 == Try(c, "GetClientRect(viewport)", f)
         IN IF c1.res # OK THEN c1 ELSE Call(c1, "ClearRenderTargetView", OK)

\* The roster entry at index i: Simple or Tiles (lines 377-389 and the push of "tiles").
ShaderType(i) == IF i < NumSimpleShaders THEN "Simple" ELSE "Tiles"
RosterLen == NumSimpleShaders + 1

\* Lines 1523-1600: bind resources based on shader type.
BindShaderResources(c, f) ==
    IF c.res # OK THEN c
    ELSE IF IsNone(c.state.extended_srv) THEN Return(c, PANIC)
    ELSE LET c1 == [c EXCEPT !.gpu.ps_srv0 = c.state.extended_srv]
         IN IF ShaderType(c.state.current_shader) = "Simple" THEN c1
            ELSE LET c2 == Try(c1, "Map(tiles_constants)", f)
                 IN IF c2.res # OK THEN c2 ELSE [c2 EXCEPT !.gpu.ps_cb0 = "tiles"]

\* Mutant of DrawAndPresent: the result of Present is dropped instead of returned.
DrawAndPresent_ignores_failure(c, f) ==
    IF c.res # OK THEN c
    ELSE Call([c EXCEPT !.calls = Append(@, <<"Draw", OK, Bindings(c.gpu)>>)], "Present",
              Hr(f, "Present"))

\* Lines 1602-1622: draw the quad and present. The Draw entry of the call log carries
\* the bindings at the draw.
DrawAndPresent(c, f) ==
    IF c.res # OK THEN c
    ELSE Try([c EXCEPT !.calls = Append(@, <<"Draw", OK, Bindings(c.gpu)>>)], "Present", f)

\* The calls of handle_frame that can fail.
FramePoints ==
    {"GetClientRect", "CreateTexture2D(staging)", "CreateTexture2D(extended)",
     "CreateUnorderedAccessView", "CreateShaderResourceView(extended)",
     "CreateShaderResourceView(staging)", "Map(extend_params)", "Map(time)",
     "GetClientRect(viewport)", "Map(tiles_constants)", "Present"}

\* fn handle_frame, lines 1239-1627.
handle_frame(c, f) ==
    LET c0 == Try(c, "GetClientRect", f)
        L == FrameLocals(c0.state, c0.window)
        c1 == CreateStagingIfNeeded(c0, L, f)
        c2 == CreateExtendedIfNeeded(c1, L, f)
        c3 == CopyValidRegion(c2, L)
        c4 == CreateStagingSrvIfNeeded(c3, f)
        c5 == RunExtendCompute(c4, L, f)
        c6 == UpdateTimeBuffer(c5, f)
        c7 == SetUpRendering(c6, f)
        c8 == BindShaderResources(c7, f)
    IN DrawAndPresent(c8, f)

\* ------------------------------------------------- frame acquisition
\* IDXGIOutputDuplication::ReleaseFrame: INVALID_CALL when no frame is held; else
\* the frame is given back (rel is S_OK, or ACCESS_LOST when the duplication died).
ReleaseFrame(c, rel) ==
    LET hr == IF Unwrap(c.state.duplication).held THEN rel ELSE INVALID_CALL
    IN [c |-> [Call(c, "ReleaseFrame", hr) EXCEPT !.state.duplication = Some([held |-> FALSE])],
        hr |-> hr]

\* Mutant of try_drop: the scope is read without take(), so it still holds the
\* duplication when it is dropped.
try_drop_without_take(scope) == [issue |-> IsSome(scope), scope |-> scope]

\* ReleaseFrameScope::try_drop, lines 1638-1643: take() the duplication out of the
\* scope; the release is issued when there was one.
try_drop(scope) == [issue |-> IsSome(scope), scope |-> None]

\* try_drop run on a context: the scope left behind and the result of the release.
RunTryDrop(c, scope, rel) ==
    LET t == try_drop(scope)
        r == ReleaseFrame(c, rel)
    IN IF t.issue THEN [c |-> r.c, scope |-> t.scope, hr |-> r.hr]
       ELSE [c |-> c, scope |-> t.scope, hr |-> OK]

\* impl Drop for ReleaseFrameScope, lines 1631-1635: the result is discarded.
DropScope(c, scope, rel) == RunTryDrop(c, scope, rel).c

\* ReleaseFrameScope::release / AcquiredFrameScope::release, lines 1644-1646 and
\* 1659-1661: try_drop, then self goes out of scope and is dropped.
ReleaseScope(c, scope, rel) ==
    LET t == RunTryDrop(c, scope, rel)
        c1 == DropScope(t.c, t.scope, rel)
    IN IF t.hr = OK THEN c1 ELSE Return(c1, t.hr)

\* What AcquireNextFrame can answer.
FrameOutcomes == {"frame", "zero_present_time", "no_resource"}
AcquireOutcomes == FrameOutcomes \cup {WAIT_TIMEOUT, ACCESS_LOST, E_OTHER}

\* fn acquire_dxgi_duplication_frame, lines 1664-1677: the context after the call and
\* the AcquiredFrameScope (None on error).
acquire_dxgi_duplication_frame(c, timeout_millis, acq) ==
    LET hr == IF Unwrap(c.state.duplication).held THEN INVALID_CALL
              ELSE IF acq \in FrameOutcomes THEN OK ELSE acq
        c1 == [c EXCEPT !.calls = Append(@, <<"AcquireNextFrame", hr, timeout_millis>>)]
    IN IF hr = OK
       THEN [c |-> [c1 EXCEPT !.state.duplication = Some([held |-> TRUE])],
             hr |-> OK,
             frame |-> Some([LastPresentTime |-> IF acq = "zero_present_time" THEN 0 ELSE 1,
                             resource |-> IF acq = "no_resource" THEN None ELSE Some(FrameTexture),
                             release_scope |-> Some("duplication")])]
       ELSE [c |-> c1, hr |-> hr, frame |-> None]

\* Mutant of SetUpDuplication: a handle is stored although DuplicateOutput failed.
SetUpDuplication_stores_failed_handle(c, dup) ==
    IF IsSome(c.state.duplication) THEN c
    ELSE [Try(c, "DuplicateOutput", [at |-> "DuplicateOutput", code |-> dup])
             EXCEPT !.state.duplication = Some([held |-> FALSE])]

\* Lines 1681-1688: set up screen capture when there is no duplication.
SetUpDuplication(c, dup) ==
    IF IsSome(c.state.duplication) THEN c
    ELSE LET c1 == Try(c, "DuplicateOutput", [at |-> "DuplicateOutput", code |-> dup])
         IN IF c1.res # OK THEN c1
            ELSE [c1 EXCEPT !.state.duplication = Some([held |-> FALSE])]

\* Mutant of FrameArm: the frame is released before it is composited.
FrameArm_releases_first(c, frame, f, rel) ==
    LET c0 == ReleaseScope(c, frame.release_scope, rel)
    IN IF c0.res = OK /\ frame.LastPresentTime # 0 /\ IsSome(frame.resource)
       THEN handle_frame(c0, f) ELSE c0

\* Mutant of FrameArm: a frame that is not composited is not released either.
FrameArm_skip_without_release(c, frame, f, rel) ==
    IF frame.LastPresentTime # 0 /\ IsSome(frame.resource)
    THEN LET c1 == handle_frame(c, f)
         IN IF c1.res = PANIC THEN c1
            ELSE IF c1.res # OK THEN DropScope(c1, frame.release_scope, rel)
            ELSE ReleaseScope(c1, frame.release_scope, rel)
    ELSE c

\* Lines 1691-1698: the Ok(frame) arm. An error or panic of handle_frame leaves the
\* arm with the frame still in scope, which drops it.
FrameArm(c, frame, f, rel) ==
    LET c1 == IF frame.LastPresentTime # 0 /\ IsSome(frame.resource)
              THEN handle_frame(c, f) ELSE c
    IN IF c1.res = PANIC THEN c1
       ELSE IF c1.res # OK THEN DropScope(c1, frame.release_scope, rel)
       ELSE ReleaseScope(c1, frame.release_scope, rel)

\* Mutant of capture_and_render_frame: the tick that creates the duplication returns
\* without acquiring.
capture_and_render_frame_defers_acquire(c, inp) ==
    LET c1 == SetUpDuplication(c, inp.dup)
        a == acquire_dxgi_duplication_frame(c1, 0, inp.acq)
    IN IF c1.res # OK \/ IsNone(c.state.duplication) THEN c1
       ELSE IF a.hr = OK THEN FrameArm(a.c, Unwrap(a.frame), inp.f, inp.rel)
       ELSE IF a.hr # WAIT_TIMEOUT THEN Return(a.c, a.hr)
       ELSE a.c

\* Mutant of capture_and_render_frame: a timeout is returned like any other error.
capture_and_render_frame_timeout_is_error(c, inp) ==
    LET c1 == SetUpDuplication(c, inp.dup)
        a == acquire_dxgi_duplication_frame(c1, 0, inp.acq)
    IN IF c1.res # OK THEN c1
       ELSE IF a.hr = OK THEN FrameArm(a.c, Unwrap(a.frame), inp.f, inp.rel)
       ELSE Return(a.c, a.hr)

\* fn capture_and_render_frame, lines 1679-1707.
capture_and_render_frame(c, inp) ==
    LET c1 == SetUpDuplication(c, inp.dup)
        a == acquire_dxgi_duplication_frame(c1, 0, inp.acq)
    IN IF c1.res # OK THEN c1
       ELSE IF a.hr = OK THEN FrameArm(a.c, Unwrap(a.frame), inp.f, inp.rel)
       ELSE IF a.hr # WAIT_TIMEOUT THEN Return(a.c, a.hr)
       ELSE a.c

\* ------------------------------------------------------------ resize
\* Mutant of ClientSourceRect: the client rectangle is not translated.
ClientSourceRect_untranslated(win) ==
    [left |-> 0, top |-> 0, right |-> win.client[1], bottom |-> win.client[2]]

\* Lines 805-814: the client rectangle translated by the client origin on screen.
ClientSourceRect(win) ==
    [left |-> win.origin[1], top |-> win.origin[2],
     right |-> win.origin[1] + win.client[1], bottom |-> win.origin[2] + win.client[2]]

ResizePoints == {"ResizeBuffers", "CreateRenderTargetView"}

\* Mutant of resize_swapchain: the render-target view is released and the buffers are
\* resized, but the view is not created again.
resize_swapchain_without_view(c, f) ==
    LET c0 == [c EXCEPT !.state.render_target_view = None,
                        !.state.shader_resource_view = None]
        c1 == Try(c0, "ResizeBuffers", f)
    IN IF c1.res # OK THEN c1
       ELSE Try([c1 EXCEPT !.gpu.swap = c1.window.client], "CreateRenderTargetView", f)

\* Mutant of resize_swapchain: the view of the staging texture is not released.
resize_swapchain_keeps_staging_view(c, f) ==
    LET c0 == [c EXCEPT !.state.render_target_view = None]
        c1 == Try(c0, "ResizeBuffers", f)
        c2 == IF c1.res # OK THEN c1
              ELSE Try([c1 EXCEPT !.gpu.swap = c1.window.client], "CreateRenderTargetView", f)
    IN IF c2.res # OK THEN c2
       ELSE [c2 EXCEPT !.state.render_target_view =
                           Some([w |-> c2.gpu.swap[1], h |-> c2.gpu.swap[2]])]

\* fn resize_swapchain, lines 1207-1237.
resize_swapchain(c, f) ==
    LET c0 == [c EXCEPT !.state.render_target_view = None,
                        !.state.shader_resource_view = None]
        c1 == Try(c0, "ResizeBuffers", f)
        c2 == IF c1.res # OK THEN c1
              ELSE Try([c1 EXCEPT !.gpu.swap = c1.window.client], "CreateRenderTargetView", f)
    IN IF c2.res # OK THEN c2
       ELSE [c2 EXCEPT !.state.render_target_view =
                           Some([w |-> c2.gpu.swap[1], h |-> c2.gpu.swap[2]])]

\* Mutant of ClearOnSize: the staging texture survives the resize.
ClearOnSize_keeps_staging(st) ==
    [st EXCEPT !.render_target_view = None,
               !.extended_texture = None,
               !.extended_srv = None,
               !.extended_uav = None]

\* Lines 816-825: what WM_SIZE clears before it resizes the swap chain.
ClearOnSize(st) ==
    [st EXCEPT !.render_target_view = None,
               !.staging_texture = None,
               !.extended_texture = None,
               !.extended_srv = None,
               !.extended_uav = None]

\* wndproc, WM_SIZE | WM_MOVE arm, lines 800-828; the result of resize_swapchain is
\* discarded.
OnSizeOrMove(c, message, f) ==
    LET c1 == [c EXCEPT !.state.source_rect = ClientSourceRect(c.window)]
    IN IF message = "WM_SIZE"
       THEN Return(resize_swapchain([c1 EXCEPT !.state = ClearOnSize(@)], f), OK)
       ELSE c1

\* Mutant of OnPaintError: access-lost also invalidates the size-dependent resources.
OnPaintError_invalidates_all(st, hr) ==
    IF hr = ACCESS_LOST
    THEN [st EXCEPT !.duplication = None,
                    !.render_target_view = None,
                    !.shader_resource_view = None,
                    !.staging_texture = None,
                    !.extended_texture = None,
                    !.extended_srv = None,
                    !.extended_uav = None]
    ELSE st

\* Mutant of OnPaintError: access-lost leaves the duplication in place.
OnPaintError_keeps_duplication(st, hr) == st

\* Mutant of OnPaintError: every error drops the duplication.
OnPaintError_drops_on_any_error(st, hr) == [st EXCEPT !.duplication = None]

\* What the WM_PAINT arm does with an error of the tick, lines 844-850.
OnPaintError(st, hr) ==
    IF hr = ACCESS_LOST THEN [st EXCEPT !.duplication = None] ELSE st

\* Mutant of OnPaint: the paused flag is not read.
OnPaint_ignores_pause(c, inp) ==
    LET c1 == capture_and_render_frame(c, inp)
    IN IF c1.res \in {OK, PANIC} THEN c1
       ELSE [c1 EXCEPT !.state = OnPaintError(@, c1.res)]

\* wndproc, WM_PAINT arm, lines 839-854.
OnPaint(c, inp) ==
    IF c.state.paused THEN c
    ELSE LET c1 == capture_and_render_frame(c, inp)
         IN IF c1.res \in {OK, PANIC} THEN c1
            ELSE [c1 EXCEPT !.state = OnPaintError(@, c1.res)]

\* ------------------------------------------------------------ commands
WDA_NONE == "WDA_NONE"
WDA_EXCLUDEFROMCAPTURE == "WDA_EXCLUDEFROMCAPTURE"

\* Mutant of toggle_always_on_top: the toggle also goes back to the initial effect.
toggle_always_on_top_resets_effect(c, hr) ==
    LET c1 == [c EXCEPT !.state.always_on_top = ~@, !.state.current_shader = InitialShader]
        c2 == Try(c1, "SetWindowPos", [at |-> "SetWindowPos", code |-> hr])
    IN IF c2.res # OK THEN c2
       ELSE [c2 EXCEPT !.window.topmost = c1.state.always_on_top]

\* fn toggle_always_on_top, lines 1005-1035.
toggle_always_on_top(c, hr) ==
    LET c1 == [c EXCEPT !.state.always_on_top = ~@]
        c2 == Try(c1, "SetWindowPos", [at |-> "SetWindowPos", code |-> hr])
    IN IF c2.res # OK THEN c2
       ELSE [c2 EXCEPT !.window.topmost = c1.state.always_on_top]

\* Mutant of toggle_pause_and_hide: pausing lets go of the duplication.
toggle_pause_and_hide_releases(c, hr) ==
    LET c1 == [c EXCEPT !.state.paused = ~@, !.state.duplication = None]
        flags == IF c1.state.paused THEN WDA_NONE ELSE WDA_EXCLUDEFROMCAPTURE
        c2 == Try(c1, "SetWindowDisplayAffinity", [at |-> "SetWindowDisplayAffinity", code |-> hr])
    IN IF c2.res # OK THEN c2
       ELSE [c2 EXCEPT !.window.affinity = flags]

\* fn toggle_pause_and_hide, lines 1037-1056.
toggle_pause_and_hide(c, hr) ==
    LET c1 == [c EXCEPT !.state.paused = ~@]
        flags == IF c1.state.paused THEN WDA_NONE ELSE WDA_EXCLUDEFROMCAPTURE
        c2 == Try(c1, "SetWindowDisplayAffinity", [at |-> "SetWindowDisplayAffinity", code |-> hr])
    IN IF c2.res # OK THEN c2
       ELSE [c2 EXCEPT !.window.affinity = flags]

\* fn save_frame_to_png, lines 894-1003: reads the back buffer, writes a file.
save_frame_to_png(c, hr) ==
    Try(c, "save_frame_to_png", [at |-> "save_frame_to_png", code |-> hr])

\* Mutant of OnCommand: the effect index is stored without the bounds check.
OnCommand_unchecked_index(c, accel_id, hr) ==
    IF accel_id = ID_SAVE THEN Return(save_frame_to_png(c, hr), OK)
    ELSE IF accel_id = ID_ALWAYS_ON_TOP THEN Return(toggle_always_on_top(c, hr), OK)
    ELSE IF accel_id = ID_TOGGLE_PAUSE THEN Return(toggle_pause_and_hide(c, hr), OK)
    ELSE IF accel_id >= ID_SHADER_BASE /\ accel_id < ID_SHADER_END
    THEN [c EXCEPT !.state.current_shader = accel_id - ID_SHADER_BASE]
    ELSE c

\* Mutant of OnCommand: the ordinal of the key is stored as the index.
OnCommand_ordinal_as_index(c, accel_id, hr) ==
    IF accel_id = ID_SAVE THEN Return(save_frame_to_png(c, hr), OK)
    ELSE IF accel_id = ID_ALWAYS_ON_TOP THEN Return(toggle_always_on_top(c, hr), OK)
    ELSE IF accel_id = ID_TOGGLE_PAUSE THEN Return(toggle_pause_and_hide(c, hr), OK)
    ELSE IF accel_id >= ID_SHADER_BASE /\ accel_id < ID_SHADER_END
    THEN LET idx == accel_id - ID_SHADER_BASE
         IN IF idx < RosterLen THEN [c EXCEPT !.state.current_shader = idx + 1] ELSE c
    ELSE c

\* wndproc, WM_COMMAND arm, lines 855-888; every error is printed and dropped.
OnCommand(c, accel_id, hr) ==
    IF accel_id = ID_SAVE THEN Return(save_frame_to_png(c, hr), OK)
    ELSE IF accel_id = ID_ALWAYS_ON_TOP THEN Return(toggle_always_on_top(c, hr), OK)
    ELSE IF accel_id = ID_TOGGLE_PAUSE THEN Return(toggle_pause_and_hide(c, hr), OK)
    ELSE IF accel_id >= ID_SHADER_BASE /\ accel_id < ID_SHADER_END
    THEN LET idx == accel_id - ID_SHADER_BASE
         IN IF idx < RosterLen THEN [c EXCEPT !.state.current_shader = idx] ELSE c
    ELSE c

\* ------------------------------------------------------------ the machine
\* Client origins and client sizes the shell can give the window.
Origins == ((0 - MaxOff)..0) \X ((0 - MaxOff)..0)
Sizes == (1..MaxClient) \X (1..MaxClient)

\* main, lines 642-668: the CaptureState installed on the window.
InitialState ==
    [duplication |-> None,
     current_shader |-> InitialShader,
     render_target_view |-> None,
     shader_resource_view |-> None,
     staging_texture |-> None,
     extended_texture |-> None,
     extended_srv |-> None,
     extended_uav |-> None,
     source_rect |-> [left |-> 0, top |-> 0, right |-> 0, bottom |-> 0],
     always_on_top |-> FALSE,
     paused |-> FALSE]

\* main, lines 168-188 and 218-240: the window (excluded from capture) and the swap
\* chain created at the client size.
InitFor(origins, sizes) ==
    /\ state = InitialState
    /\ \E o \in origins, s \in sizes :
          /\ window = [origin |-> o, client |-> s, topmost |-> FALSE,
                       affinity |-> WDA_EXCLUDEFROMCAPTURE]
          /\ gpu = [swap |-> s, ps_srv0 |-> None, ps_cb0 |-> "none",
                    cs_shader |-> FALSE, cs_srv0 |-> None, cs_uav0 |-> None]
    /\ calls = <<>>
    /\ last = [msg |-> "none", res |-> OK, arg |-> "none"]
    /\ run = "running"

\* The state a handler leaves behind; a panic inside wndproc aborts the process.
Finish(c, msg, arg) ==
    /\ state' = c.state
    /\ window' = c.window
    /\ gpu' = c.gpu
    /\ calls' = c.calls
    /\ last' = [msg |-> msg, res |-> c.res, arg |-> arg]
    /\ run' = IF c.res = PANIC THEN "aborted" ELSE run

\* The window gets a new client size and wndproc handles WM_SIZE.
WmSize(size, f) ==
    /\ run = "running"
    /\ Finish(OnSizeOrMove(Context(state, gpu, [window EXCEPT !.client = size]), "WM_SIZE", f),
              "WM_SIZE", f.at)

\* The window gets a new client origin and wndproc handles WM_MOVE.
WmMove(origin) ==
    /\ run = "running"
    /\ Finish(OnSizeOrMove(Context(state, gpu, [window EXCEPT !.origin = origin]), "WM_MOVE",
                           NoFailure),
              "WM_MOVE", "none")

\* The failures of handle_frame: any call can fail; access-lost comes from Present.
FrameFailures ==
    [at : FramePoints, code : {E_OTHER}] \cup {[at |-> "Present", code |-> ACCESS_LOST]}

\* What the environment can answer during one paint tick: the tick without a failing
\* call, and the tick with one.
PlainPaintInputs ==
    [dup : {OK}, acq : {"frame", WAIT_TIMEOUT}, f : {NoFailure}, rel : {OK}]
PaintInputs ==
    [dup : ErrorCodes, acq : {WAIT_TIMEOUT}, f : {NoFailure}, rel : {OK}]
    \cup [dup : {OK}, acq : {WAIT_TIMEOUT, ACCESS_LOST, E_OTHER}, f : {NoFailure}, rel : {OK}]
    \cup [dup : {OK}, acq : FrameOutcomes, f : {NoFailure}, rel : {OK, ACCESS_LOST}]
    \cup [dup : {OK}, acq : {"frame"}, f : FrameFailures, rel : {OK}]

\* wndproc handles WM_PAINT: one paint tick.
WmPaint(inp) ==
    /\ run = "running"
    /\ inp.dup # OK => IsNone(state.duplication) /\ ~state.paused
    /\ Finish(OnPaint(Context(state, gpu, window), inp), "WM_PAINT", inp.acq)

\* wndproc handles WM_COMMAND for an accelerator.
WmCommand(accel_id, hr) ==
    /\ run = "running"
    /\ Finish(OnCommand(Context(state, gpu, window), accel_id, hr), "WM_COMMAND", accel_id)

\* wndproc handles WM_DESTROY: PostQuitMessage ends the message loop (lines 690-708,
\* 796-799).
WmDestroy ==
    /\ run = "running"
    /\ run' = "quit"
    /\ calls' = <<<<"PostQuitMessage", OK>>>>
    /\ last' = [msg |-> "WM_DESTROY", res |-> OK, arg |-> "none"]
    /\ UNCHANGED <<state, window, gpu>>

AccelIds == {ID_SAVE, ID_ALWAYS_ON_TOP, ID_TOGGLE_PAUSE} \cup (ID_SHADER_BASE..(ID_SHADER_END - 1))

\* The frame pipeline under every window placement: resize, move and paint events.
FrameInit == InitFor(Origins, Sizes)
FrameNext ==
    \/ \E size \in Sizes : WmSize(size, NoFailure)
    \/ \E origin \in Origins : WmMove(origin)
    \/ \E inp \in PlainPaintInputs : WmPaint(inp)
FrameSpec == FrameInit /\ [][FrameNext]_vars

\* The capture pipeline with every failure the environment can produce, for a window
\* that is on screen or hangs over its left edge.
SessionOrigins == {<<0, 0>>, <<0 - MaxOff, 0>>}
SessionSizes == {<<1, 1>>, <<MaxClient, 1>>}
Init == InitFor(SessionOrigins, SessionSizes)
Next ==
    \/ \E size \in SessionSizes, f \in {NoFailure} \cup [at : ResizePoints, code : {E_OTHER}] :
          WmSize(size, f)
    \/ \E origin \in SessionOrigins : WmMove(origin)
    \/ \E inp \in PaintInputs : WmPaint(inp)
    \/ WmDestroy
Spec == Init /\ [][Next]_vars

\* The accelerator commands between paint ticks, resizes and moves without failing
\* GPU calls.
CommandNext ==
    \/ \E size \in SessionSizes : WmSize(size, NoFailure)
    \/ \E origin \in SessionOrigins : WmMove(origin)
    \/ \E inp \in PlainPaintInputs : WmPaint(inp)
    \/ \E accel_id \in AccelIds, hr \in {OK, E_OTHER} : WmCommand(accel_id, hr)
    \/ WmDestroy
CommandSpec == Init /\ [][CommandNext]_vars

\* Loss and recovery of the duplication at one window placement: every outcome of
\* DuplicateOutput, AcquireNextFrame, the calls of handle_frame and ReleaseFrame, with
\* the pause toggle in between.
RecoveryPaintInputs ==
    PaintInputs \cup [dup : {OK}, acq : FrameOutcomes, f : {NoFailure}, rel : {E_OTHER}]
RecoveryInit == InitFor({<<0, 0>>}, {<<1, 1>>})
RecoveryNext ==
    \/ WmSize(<<1, 1>>, NoFailure)
    \/ \E inp \in RecoveryPaintInputs : WmPaint(inp)
    \/ \E hr \in {OK, E_OTHER} : WmCommand(ID_TOGGLE_PAUSE, hr)
RecoverySpec == RecoveryInit /\ [][RecoveryNext]_vars

\* The results a call has in a log of calls.
ResultsOf(log, name) == {log[i][2] : i \in {j \in DOMAIN log : log[j][1] = name}}

\* ------------------------------------------------------------------- main
\* The exit status of the process: main returns Ok(()), main returns Err, main panics.
EXIT_SUCCESS == 0
EXIT_FAILURE == 1
EXIT_PANIC == 101

\* Mutant of StartupSteps: a simple effect that fails to compile is left out of the
\* roster instead of stopping main.
StartupSteps_skips_failed_effects ==
    <<[call |-> "CoInitializeEx", on_fail |-> "return"],
      [call |-> "GetModuleHandleW", on_fail |-> "return"],
      [call |-> "RegisterClassExW", on_fail |-> "ignore"],
      [call |-> "CreateWindowExW", on_fail |-> "return"],
      [call |-> "SetWindowDisplayAffinity", on_fail |-> "return"],
      [call |-> "D3D11CreateDevice", on_fail |-> "return"],
      [call |-> "GetParent(IDXGIFactory2)", on_fail |-> "return"],
      [call |-> "GetClientRect", on_fail |-> "return"],
      [call |-> "CreateSwapChainForHwnd", on_fail |-> "return"],
      [call |-> "compile(vertex)", on_fail |-> "return"],
      [call |-> "CreateInputLayout", on_fail |-> "return"],
      [call |-> "compile_pixel_shader(passthru)", on_fail |-> "ignore"],
      [call |-> "compile_pixel_shader(wobbly)", on_fail |-> "ignore"],
      [call |-> "compile_pixel_shader(lightning)", on_fail |-> "ignore"],
      [call |-> "compile_pixel_shader(sorty)", on_fail |-> "ignore"],
      [call |-> "compile_pixel_shader_sm5(tiles)", on_fail |-> "return"],
      [call |-> "load_png_from_bytes", on_fail |-> "return"],
      [call |-> "CreateBuffer(brightness)", on_fail |-> "return"],
      [call |-> "CreateShaderResourceView(brightness)", on_fail |-> "return"],
      [call |-> "CreateBuffer(tiles_constants)", on_fail |-> "return"],
      [call |-> "compile(compute)", on_fail |-> "return"],
      [call |-> "CreateBuffer(extend_params)", on_fail |-> "return"],
      [call |-> "CreateSamplerState", on_fail |-> "return"],
      [call |-> "CreateBuffer(vertex)", on_fail |-> "return"],
      [call |-> "CreateBuffer(time)", on_fail |-> "return"],
      [call |-> "SetWindowLongPtrW", on_fail |-> "never"],
      [call |-> "create_accelerators", on_fail |-> "return"]>>

\* main, lines 144-687: the calls of main up to the message loop, in program order, each
\* with what main does when it fails: "return" for call()?, "panic" for call().unwrap(),
\* "ignore" for a result that is not looked at. SetWindowLongPtrW installs the session
\* on a window that main has just created; its result is not looked at either.
StartupSteps ==
    <<[call |-> "CoInitializeEx", on_fail |-> "return"],
      [call |-> "GetModuleHandleW", on_fail |-> "return"],
      [call |-> "RegisterClassExW", on_fail |-> "ignore"],
      [call |-> "CreateWindowExW", on_fail |-> "return"],
      [call |-> "SetWindowDisplayAffinity", on_fail |-> "return"],
      [call |-> "D3D11CreateDevice", on_fail |-> "return"],
      [call |-> "GetParent(IDXGIFactory2)", on_fail |-> "return"],
      [call |-> "GetClientRect", on_fail |-> "return"],
      [call |-> "CreateSwapChainForHwnd", on_fail |-> "return"],
      [call |-> "compile(vertex)", on_fail |-> "return"],
      [call |-> "CreateInputLayout", on_fail |-> "return"],
      [call |-> "compile_pixel_shader(passthru)", on_fail |-> "panic"],
      [call |-> "compile_pixel_shader(wobbly)", on_fail |-> "panic"],
      [call |-> "compile_pixel_shader(lightning)", on_fail |-> "panic"],
      [call |-> "compile_pixel_shader(sorty)", on_fail |-> "panic"],
      [call |-> "compile_pixel_shader_sm5(tiles)", on_fail |-> "return"],
      [call |-> "load_png_from_bytes", on_fail |-> "return"],
      [call |-> "CreateBuffer(brightness)", on_fail |-> "return"],
      [call |-> "CreateShaderResourceView(brightness)", on_fail |-> "return"],
      [call |-> "CreateBuffer(tiles_constants)", on_fail |-> "return"],
      [call |-> "compile(compute)", on_fail |-> "return"],
      [call |-> "CreateBuffer(extend_params)", on_fail |-> "return"],
      [call |-> "CreateSamplerState", on_fail |-> "return"],
      [call |-> "CreateBuffer(vertex)", on_fail |-> "return"],
      [call |-> "CreateBuffer(time)", on_fail |-> "return"],
      [call |-> "SetWindowLongPtrW", on_fail |-> "never"],
      [call |-> "create_accelerators", on_fail |-> "return"]>>

\* What a startup call can answer. A window of a class that was not registered cannot
\* be created.
StartupResults(log, step) ==
    IF step.on_fail = "never" THEN {OK}
    ELSE IF step.call = "CreateWindowExW" /\ ResultsOf(log, "RegisterClassExW") = {E_OTHER}
    THEN {E_OTHER}
    ELSE {OK, E_OTHER}

\* The process before main has run: no session (GWLP_USERDATA is null), a window
\* placement the shell will give the window.
MainInit ==
    /\ state = None
    /\ \E o \in SessionOrigins, s \in SessionSizes :
          /\ window = [origin |-> o, client |-> s, topmost |-> FALSE,
                       affinity |-> WDA_EXCLUDEFROMCAPTURE]
          /\ gpu = [swap |-> s, ps_srv0 |-> None, ps_cb0 |-> "none",
                    cs_shader |-> FALSE, cs_srv0 |-> None, cs_uav0 |-> None]
    /\ calls = <<>>
    /\ last = [msg |-> "none", res |-> OK, arg |-> "none"]
    /\ run = "starting"

\* One call of main succeeds, or fails with its result ignored: main goes on.
\* SetWindowLongPtrW installs the CaptureState (lines 642-681); after the last call the
\* message loop starts (line 689).
MainStep(hr) ==
    /\ run = "starting"
    /\ LET step == StartupSteps[Len(calls) + 1]
       IN /\ hr \in StartupResults(calls, step)
          /\ hr = OK \/ step.on_fail = "ignore"
          /\ calls' = Append(calls, <<step.call, hr>>)
          /\ last' = [msg |-> "main", res |-> hr, arg |-> step.call]
          /\ state' = IF step.call = "SetWindowLongPtrW" THEN InitialState ELSE state
          /\ run' = IF Len(calls) + 1 = Len(StartupSteps) THEN "running" ELSE "starting"
    /\ UNCHANGED <<window, gpu>>

\* One call of main fails: call()? makes main return the error (exit status 1) and
\* call().unwrap() makes it panic (exit status 101).
MainFails(hr) ==
    /\ run = "starting"
    /\ LET step == StartupSteps[Len(calls) + 1]
       IN /\ hr \in StartupResults(calls, step)
          /\ hr # OK /\ step.on_fail \in {"return", "panic"}
          /\ calls' = Append(calls, <<step.call, hr>>)
          /\ last' = [msg |-> "exit", res |-> hr,
                      arg |-> IF step.on_fail = "panic" THEN EXIT_PANIC ELSE EXIT_FAILURE]
    /\ run' = "exited"
    /\ UNCHANGED <<state, window, gpu>>

\* main, lines 690-717: GetMessageW answers 0 for the quit message or -1 for an error;
\* the loop ends, the session is dropped when GetWindowLongPtrW still gives its pointer,
\* and main returns Ok(()). The quit message is posted by WM_DESTROY, that is while the
\* window is being destroyed, and GetWindowLongPtrW answers 0 for a destroyed window.
LoopEnd ==
    /\ run \in {"running", "quit"}
    /\ LET status == IF run = "quit" THEN 0 ELSE 0 - 1
           state_ptr == IF run = "quit" THEN None ELSE Some(state)
       IN /\ calls' = <<<<"GetMessageW", status>>,
                        <<"GetWindowLongPtrW", IF IsNone(state_ptr) THEN "null" ELSE "state">>>>
          /\ state' = IF IsNone(state_ptr) THEN state ELSE None
          /\ last' = [msg |-> "exit", res |-> IF status = 0 THEN "WM_QUIT" ELSE "GetMessageW",
                      arg |-> EXIT_SUCCESS]
    /\ run' = "exited"
    /\ UNCHANGED <<window, gpu>>

\* The process from the start of main to its exit: startup, the message loop with
\* resize and paint events, the destroy event and the end of the loop.
MainNext ==
    \/ \E hr \in {OK, E_OTHER} : MainStep(hr)
    \/ \E hr \in {E_OTHER} : MainFails(hr)
    \/ \E size \in SessionSizes : WmSize(size, NoFailure)
    \/ \E inp \in PlainPaintInputs : WmPaint(inp)
    \/ WmDestroy
    \/ LoopEnd
MainSpec == MainInit /\ [][MainNext]_vars

\* ------------------------------------------------ compute_tile_brightness
\* Line 1192: the luma weights, in thousandths; line 1187: the largest channel value.
LumaR == 299
LumaG == 587
LumaB == 114
ChannelMax == 255

\* Mutant of Luminance: the pixel is read as RGBA, the first byte taken for red.
Luminance_reads_rgba(pixels, pixel_index) ==
    LumaB * pixels[pixel_index + 3] + LumaG * pixels[pixel_index + 2]
        + LumaR * pixels[pixel_index + 1]

\* Lines 1187-1192: the luminance of the BGRA pixel at the 0-based byte offset
\* pixel_index, as a multiple of 1 / (1000 * 255). The f32 arithmetic of the code is
\* taken as exact.
Luminance(pixels, pixel_index) ==
    LumaR * pixels[pixel_index + 3] + LumaG * pixels[pixel_index + 2]
        + LumaB * pixels[pixel_index + 1]

\* Lines 1175-1196: brightness_sum after the first n samples of the tile, sy outer and
\* sx inner; a sample whose bytes lie beyond the buffer is skipped.
RECURSIVE brightness_sum(_, _, _, _, _, _)
brightness_sum(pixels, width, tile_width, tile_row_y, tile_col_x, n) ==
    IF n = 0 THEN 0
    ELSE LET sy == (n - 1) \div tile_width
             sx == (n - 1) % tile_width
             pixel_x == tile_col_x + sx
             pixel_y == tile_row_y + sy
             pixel_index == (pixel_y * width + pixel_x) * 4
             rest == brightness_sum(pixels, width, tile_width, tile_row_y, tile_col_x, n - 1)
         IN IF pixel_index + 2 < Len(pixels)
            THEN rest + Luminance(pixels, pixel_index)
            ELSE rest

\* Lines 1198-1200: the average pushed for one tile, as the fraction num / den.
avg_brightness(pixels, width, tile_width, tile_height, tile_row, tile_col) ==
    [num |-> brightness_sum(pixels, width, tile_width, tile_row * tile_height,
                            tile_col * tile_width, tile_width * tile_height),
     den |-> (LumaR + LumaG + LumaB) * ChannelMax * (tile_width * tile_height)]

\* Lines 1173-1202: brightness_values after the pushes of the first n tiles, tile_row
\* outer and tile_col inner.
RECURSIVE brightness_values(_, _, _, _, _, _)
brightness_values(pixels, width, tile_width, tile_height, tiles_per_row, n) ==
    IF n = 0 THEN <<>>
    ELSE Append(brightness_values(pixels, width, tile_width, tile_height, tiles_per_row, n - 1),
                avg_brightness(pixels, width, tile_width, tile_height,
                               (n - 1) \div tiles_per_row, (n - 1) % tiles_per_row))

\* fn compute_tile_brightness, lines 1160-1205.
compute_tile_brightness(pixels, width, height, tile_width, tile_height) ==
    LET tiles_per_row == width \div tile_width
        tiles_per_col == height \div tile_height
        total_tiles == tiles_per_row * tiles_per_col
    IN brightness_values(pixels, width, tile_width, tile_height, tiles_per_row, total_tiles)

\* Glyph sheets: up to MaxSheetW x MaxSheetH pixels, black but for at most MaxLit
\* pixels; tiles of up to MaxTile x MaxTile pixels.
MaxSheetW == 3
MaxSheetH == 2
MaxTile == 2
MaxLit == 2
LitColours ==
    {<<ChannelMax, 0, 0>>, <<0, ChannelMax, 0>>, <<0, 0, ChannelMax>>,
     <<ChannelMax, ChannelMax, ChannelMax>>}

\* load_png_from_bytes, lines 1100-1106: the pixel buffer of a sheet, 4 bytes (B, G, R,
\* A) per pixel, rows top to bottom; colour[i] is the <<R, G, B>> of the i-th pixel.
PixelBuffer(colour) ==
    [k \in 1..(4 * Len(colour)) |->
        LET c == colour[((k - 1) \div 4) + 1]
        IN CASE (k - 1) % 4 = 0 -> c[3]
             [] (k - 1) % 4 = 1 -> c[2]
             [] (k - 1) % 4 = 2 -> c[1]
             [] OTHER -> ChannelMax]

\* The call of lines 400-406 for a sheet and a tile size: nothing else of the program
\* takes part.
TileInit ==
    /\ \E width \in 1..MaxSheetW, height \in 1..MaxSheetH,
          tile_width \in 1..MaxTile, tile_height \in 1..MaxTile :
          \E lit \in {S \in SUBSET (1..(width * height)) : Cardinality(S) <= MaxLit} :
             \E paint \in [lit -> LitColours] :
                state = [pixels |-> PixelBuffer([i \in 1..(width * height) |->
                                        IF i \in lit THEN paint[i] ELSE <<0, 0, 0>>]),
                         width |-> width, height |-> height,
                         tile_width |-> tile_width, tile_height |-> tile_height]
    /\ window = [origin |-> <<0, 0>>, client |-> <<1, 1>>, topmost |-> FALSE,
                 affinity |-> WDA_EXCLUDEFROMCAPTURE]
    /\ gpu = [swap |-> <<1, 1>>, ps_srv0 |-> None, ps_cb0 |-> "none",
              cs_shader |-> FALSE, cs_srv0 |-> None, cs_uav0 |-> None]
    /\ calls = <<>>
    /\ last = [msg |-> "none", res |-> OK, arg |-> "none"]
    /\ run = "starting"

\* main, line 406: the brightness lookup is computed; calls holds the returned vector.
ComputeTileBrightness ==
    /\ run = "starting" /\ last.msg = "none"
    /\ calls' = compute_tile_brightness(state.pixels, state.width, state.height,
                                        state.tile_width, state.tile_height)
    /\ last' = [msg |-> "compute_tile_brightness", res |-> OK, arg |-> "none"]
    /\ UNCHANGED <<state, window, gpu, run>>

TileNext == ComputeTileBrightness
TileSpec == TileInit /\ [][TileNext]_vars

\* ===================================================================== claims
\* What the calls of the last handler show.
CallsAt(name) == {i \in DOMAIN calls : calls[i][1] = name}
AcquiredAt == {i \in CallsAt("AcquireNextFrame") : calls[i][2] = OK}
RanExtendPass == last.msg = "WM_PAINT" /\ CallsAt("Dispatch") # {}
Composited == RanExtendPass /\ \E i \in CallsAt("Present") : calls[i][2] = OK
DispatchCall == calls[CHOOSE i \in CallsAt("Dispatch") : TRUE]
DispatchParams == DispatchCall[3]

\* The size-dependent resource set of a CaptureState.
SizeSet(st) ==
    <<st.staging_texture, st.extended_texture, st.extended_srv, st.extended_uav,
      st.render_target_view>>
AllAbsent == \A i \in 1..5 : IsNone(SizeSet(state)[i])
AllPresent == \A i \in 1..5 : IsSome(SizeSet(state)[i])
Dims(o) == <<Unwrap(o).w, Unwrap(o).h>>

\* ---------------------------------------------------------------------- C1
\* C1: in every paint tick that returns, each successful AcquireNextFrame is followed,
\* in the same tick and with no acquisition attempt in between, by exactly one
\* ReleaseFrame: on the composited path, on the skipped paths and when handle_frame
\* returns an error. No release is issued without a held frame (none twice), no
\* acquisition is attempted while a frame is held, and no frame is held between ticks.
C1_AcquireReleasePaired ==
    run # "aborted" =>
        /\ \A i \in AcquiredAt :
              /\ Cardinality({j \in CallsAt("ReleaseFrame") : j > i}) = 1
              /\ \A k \in CallsAt("AcquireNextFrame") : k <= i
        /\ Cardinality(CallsAt("ReleaseFrame")) = Cardinality(AcquiredAt)
        /\ \A j \in CallsAt("ReleaseFrame") \cup CallsAt("AcquireNextFrame") :
              calls[j][2] # INVALID_CALL
        /\ IsSome(state.duplication) => ~Unwrap(state.duplication).held

\* A tick in which the frame was acquired, Present failed inside handle_frame and the
\* frame was released by the drop of the scope.
C1_ReleasedOnErrorPath ==
    /\ run = "running" /\ last.msg = "WM_PAINT" /\ last.res = E_OTHER
    /\ AcquiredAt # {}
    /\ \E i \in CallsAt("Present") : calls[i][2] = E_OTHER
    /\ \E j \in CallsAt("ReleaseFrame") : calls[j][2] = OK

\* ---------------------------------------------------------------------- C2
\* The extended sizes handle_frame can compute for a client size, over the source
\* rectangles the window can have.
SourceRects(client) ==
    {ClientSourceRect([origin |-> o, client |-> client]) : o \in Origins \cup SessionOrigins}
    \cup {InitialState.source_rect}
ExtendedSizesFor(client) ==
    {<<ExtendedWidth(client[1], SourceBox(r, client[1], client[2]), ScreenW),
       ExtendedHeight(client[2], SourceBox(r, client[1], client[2]), ScreenH)>> :
        r \in SourceRects(client)}

LazyMembers(st) ==
    <<st.staging_texture, st.extended_texture, st.extended_srv, st.extended_uav>>

C3_Step ==
    /\ last'.msg = "WM_SIZE" =>
          /\ \A i \in 1..4 : IsNone(LazyMembers(state')[i])
          /\ IsSome(state'.render_target_view) <=> last'.arg = "none"
    /\ last'.msg # "WM_PAINT" =>
          \A i \in 1..4 : IsNone(LazyMembers(state)[i]) => IsNone(LazyMembers(state')[i])
    /\ last'.msg # "WM_SIZE" => state'.render_target_view = state.render_target_view
C4_AccessLostClearsAll ==
    last.msg = "WM_PAINT" /\ last.res = ACCESS_LOST => AllAbsent

\* C4 amended: a paint tick that ends with access-lost drops the duplication handle
\* and clears no member of the size-dependent set: what was present before the tick
\* is present after it, at the same size.
C4_Step ==
    last'.msg = "WM_PAINT" /\ last'.res = ACCESS_LOST =>
        /\ IsNone(state'.duplication)
        /\ \A i \in 1..5 :
              IsSome(SizeSet(state)[i]) =>
                  /\ IsSome(SizeSet(state')[i])
                  /\ Dims(SizeSet(state')[i]) = Dims(SizeSet(state)[i])
        /\ IsSome(state.shader_resource_view) => IsSome(state'.shader_resource_view)
C4_AccessLostDropsDuplicationOnly == [][C4_Step]_vars

\* Access-lost with the whole set present: the handle is gone, the set is still there.
C4_SetSurvivesAccessLost ==
    /\ last.msg = "WM_PAINT" /\ last.res = ACCESS_LOST
    /\ IsNone(state.duplication)
    /\ AllPresent

\* ---------------------------------------------------------------------- C5
\* The source box of the frame: the source rectangle's origin and the client size.
BoxLeft == state.source_rect.left
BoxTop == state.source_rect.top
BoxRight == state.source_rect.left + window.client[1]
BoxBottom == state.source_rect.top + window.client[2]
\* The out-of-bounds distance of each edge, zero for an edge within the screen.
OverLeft == IF BoxLeft >= 0 THEN 0 ELSE 0 - BoxLeft
OverTop == IF BoxTop >= 0 THEN 0 ELSE 0 - BoxTop
OverRight == IF BoxRight <= ScreenW THEN 0 ELSE BoxRight - ScreenW
OverBottom == IF BoxBottom <= ScreenH THEN 0 ELSE BoxBottom - ScreenH

\* C5: in every frame that reaches the extend pass the overhang of each edge is zero
\* when the source box is within the screen on that edge and the out-of-bounds distance
\* otherwise, and the extended size is the client size plus the overhangs of its axis.
C5_OverhangAndExtendedSize ==
    RanExtendPass =>
        /\ DispatchParams.src_offset = <<OverLeft, OverTop>>
        /\ DispatchParams.dst_size =
              <<window.client[1] + OverLeft + OverRight,
                window.client[2] + OverTop + OverBottom>>

\* A presented frame of a window that hangs over the right edge only.
C5_RightOverhang ==
    /\ Composited
    /\ OverRight > 0 /\ OverLeft = 0 /\ OverTop = 0 /\ OverBottom = 0
    /\ DispatchParams.dst_size[1] = window.client[1] + OverRight

\* ---------------------------------------------------------------------- C6
\* The extended texture after the frame, as the effect reads it.
Extended == Unwrap(state.extended_texture)

\* C6: in every presented frame, after any moves and resizes, the allocated extended
\* texture has the dst_size passed to the extend pass of that frame, which is the
\* client size plus the overhang of the current source rectangle on each axis.
C6_ExtendedTextureHasDstSize ==
    Composited =>
        /\ DispatchParams.dst_size =
              <<window.client[1] + OverLeft + OverRight,
                window.client[2] + OverTop + OverBottom>>
        /\ <<Extended.w, Extended.h>> = DispatchParams.dst_size

\* ---------------------------------------------------------------------- C7
\* The valid (on-screen) part of the source box, in screen coordinates.
ValidLeft == Clamp(BoxLeft, 0, ScreenW)
ValidRight == Clamp(BoxRight, 0, ScreenW)
ValidTop == Clamp(BoxTop, 0, ScreenH)
ValidBottom == Clamp(BoxBottom, 0, ScreenH)
ValidWidth == ValidRight - ValidLeft
ValidHeight == ValidBottom - ValidTop
ValidNonEmpty == ValidWidth > 0 /\ ValidHeight > 0
\* A destination position in the coordinates of the valid region (the copy puts the
\* region's corner at the staging origin, the pass shifts by the left/top overhang).
InRegion(p) == <<p[1] - OverLeft, p[2] - OverTop>>
OutsideValid(p) ==
    \/ InRegion(p)[1] < 0 \/ InRegion(p)[1] >= ValidWidth
    \/ InRegion(p)[2] < 0 \/ InRegion(p)[2] >= ValidHeight
\* The captured colour at the valid coordinate nearest to a destination position.
NearestValid(p) ==
    FramePixel(ValidLeft + Clamp(InRegion(p)[1], 0, ValidWidth - 1),
               ValidTop + Clamp(InRegion(p)[2], 0, ValidHeight - 1))
\* The positions the extend pass of this frame wrote.
WrittenPositions ==
    {p \in DOMAIN Extended.px :
        p[1] < DispatchParams.dst_size[1] /\ p[2] < DispatchParams.dst_size[2]}

\* C7: after the copy and the extend pass of a frame with something on screen, every
\* written position of the extended texture outside the valid source region has the
\* captured colour of the nearest valid edge coordinate, on all four edges.
C7_OutsideReadsNearestEdge ==
    Composited /\ ValidNonEmpty =>
        \A p \in WrittenPositions : OutsideValid(p) => Extended.px[p] = NearestValid(p)

\* ---------------------------------------------------------------------- C8
\* C8: after the extend pass of a presented frame every pixel of the extended texture
\* is a pixel of the frame captured in this tick, never an undefined or a left-over
\* one, whatever the source rectangle.
C8_ExtendedFullyDefined ==
    Composited => \A p \in DOMAIN Extended.px : Extended.px[p][1] = 1

\* ---------------------------------------------------------------------- C9
Staging == Unwrap(state.staging_texture)

\* C9: in a presented frame with zero overhang on all four sides the extended texture
\* has the client size and every one of its pixels equals the staging pixel at the
\* same coordinate.
C9_ZeroOverhangIdentity ==
    Composited /\ OverLeft = 0 /\ OverRight = 0 /\ OverTop = 0 /\ OverBottom = 0 =>
        /\ <<Extended.w, Extended.h>> = window.client
        /\ \A p \in DOMAIN Extended.px :
              p \in DOMAIN Staging.px /\ Extended.px[p] = Staging.px[p]

\* ---------------------------------------------------------------------- C10
\* C10: in a presented frame of a window whose left edge is L > 0 pixels left of the
\* screen origin, no other edge overhanging, the extended texture is client width + L
\* wide and, when part of the window is on screen, its columns 0..L-1 equal column 0
\* of the valid source region.
C10_LeftOverhangColumns ==
    Composited /\ OverLeft > 0 /\ OverRight = 0 /\ OverTop = 0 /\ OverBottom = 0 =>
        /\ Extended.w = window.client[1] + OverLeft
        /\ ValidNonEmpty =>
              \A p \in DOMAIN Extended.px :
                  p[1] < OverLeft => Extended.px[p] = FramePixel(ValidLeft, ValidTop + p[2])

\* ------------------------------------------------------------ C11 .. C20
\* The indices of the calls named `name` in a call log, and of those that ended in hr.
CallsIn(log, name) == {i \in DOMAIN log : log[i][1] = name}
ResultsIn(log, name, hr) == {i \in CallsIn(log, name) : log[i][2] = hr}
\* The calls of the frame pipeline after the acquisition.
PipelineCalls ==
    FramePoints \cup {"CopySubresourceRegion", "Dispatch", "ClearRenderTargetView", "Draw"}
NoPipelineCall(log) == \A i \in DOMAIN log : log[i][1] \notin PipelineCalls
\* A CaptureState as the next handler finds it: same members, texture content old.
Aged(st) ==
    [st EXCEPT !.staging_texture = AgeOption(@), !.extended_texture = AgeOption(@)]
\* The duplication handle, present and with no frame held.
Idle == Some([held |-> FALSE])

\* ---------------------------------------------------------------------- C11
\* C11: the duplication handle is absent in the initial state and in the state right
\* after a paint tick that ended with access-lost; it goes from absent to present only
\* in a paint tick that found it absent and whose DuplicateOutput succeeded, and
\* DuplicateOutput is called only when the handle is absent, before any acquisition.
C11_Step ==
    /\ last'.msg = "WM_PAINT" /\ last'.res = ACCESS_LOST => IsNone(state'.duplication)
    /\ IsNone(state.duplication) /\ IsSome(state'.duplication) =>
          last'.msg = "WM_PAINT" /\ ResultsIn(calls', "DuplicateOutput", OK) # {}
    /\ CallsIn(calls', "DuplicateOutput") # {} =>
          /\ IsNone(state.duplication)
          /\ CallsIn(calls', "DuplicateOutput") = {1}
C11_DuplicationLazy == IsNone(state.duplication) /\ [][C11_Step]_vars

\* A tick that found no handle, created it, and lost it again in the acquisition.
C11_CreatedAndLost ==
    /\ last.msg = "WM_PAINT" /\ last.res = ACCESS_LOST
    /\ ResultsIn(calls, "DuplicateOutput", OK) # {}
    /\ ResultsIn(calls, "AcquireNextFrame", ACCESS_LOST) # {}
    /\ IsNone(state.duplication)

\* ---------------------------------------------------------------------- C12
\* C12: a tick that ends with access-lost leaves no handle, and the next paint tick
\* taken while not paused calls DuplicateOutput first and, when that succeeds, attempts
\* the acquisition in the same tick: a frame that is available is composited in the
\* tick right after the loss, with no command in between.
C12_Step ==
    /\ last.msg = "WM_PAINT" /\ last.res = ACCESS_LOST => IsNone(state.duplication)
    /\ IsNone(state.duplication) /\ ~state.paused /\ last'.msg = "WM_PAINT" =>
          /\ CallsIn(calls', "DuplicateOutput") = {1}
          /\ calls'[1][2] = OK =>
                /\ CallsIn(calls', "AcquireNextFrame") = {2}
                /\ last'.res = OK => state'.duplication = Idle
                /\ last'.arg = "frame" /\ last'.res = OK =>
                      ResultsIn(calls', "Present", OK) # {}
C12_RecreatedOnNextTick == [][C12_Step]_vars

\* A tick that re-created the handle and presented a frame with the resources of an
\* earlier tick: the handle had been lost in between.
C12_ResumedAfterLoss ==
    /\ Composited
    /\ ResultsIn(calls, "DuplicateOutput", OK) = {1}
    /\ CallsIn(calls, "CreateTexture2D(staging)") = {}
    /\ state.duplication = Idle

\* ---------------------------------------------------------------------- C13
\* C13: every AcquireNextFrame is issued with timeout zero, and a tick whose
\* acquisition times out returns success, issues no call of the frame pipeline and no
\* ReleaseFrame, and leaves the handle it acquired from, the size-dependent resources
\* and the active effect as they were.
C13_Step ==
    /\ \A i \in CallsIn(calls', "AcquireNextFrame") : calls'[i][3] = 0
    /\ ResultsIn(calls', "AcquireNextFrame", WAIT_TIMEOUT) # {} =>
          /\ last'.res = OK /\ run' = run
          /\ NoPipelineCall(calls')
          /\ CallsIn(calls', "ReleaseFrame") = {}
          /\ state' = [Aged(state) EXCEPT !.duplication = Idle]
          /\ IsSome(state.duplication) => state'.duplication = state.duplication
          /\ gpu' = gpu
C13_TimeoutSkipsTick == [][C13_Step]_vars

\* A timed-out tick of a session that has every resource.
C13_TimedOut ==
    /\ last.msg = "WM_PAINT" /\ last.res = OK
    /\ ResultsIn(calls, "AcquireNextFrame", WAIT_TIMEOUT) # {}
    /\ AllPresent

\* ---------------------------------------------------------------------- C14
\* The calls of a tick after the handle exists: acquisition, compositing, release.
TickCalls == FramePoints \cup {"AcquireNextFrame", "ReleaseFrame"}
FailedWith(log, hr) == \E i \in DOMAIN log : log[i][1] \in TickCalls /\ log[i][2] = hr

\* C14: the handle goes from present to absent only in a paint tick that ended with
\* access-lost; any other failure of acquisition, compositing or release (a timeout
\* apart) is the result of the tick and leaves the handle present.
C14_Step ==
    /\ (IsSome(state.duplication) \/ ResultsIn(calls', "DuplicateOutput", OK) # {})
       /\ IsNone(state'.duplication) =>
          last'.msg = "WM_PAINT" /\ last'.res = ACCESS_LOST
    /\ last'.msg = "WM_PAINT" /\ FailedWith(calls', E_OTHER) =>
          last'.res = E_OTHER /\ state'.duplication = Idle
C14_LostOnlyByAccessLost == [][C14_Step]_vars

\* A tick whose ReleaseFrame failed with another error: the handle is still there.
C14_OtherFailureKeepsHandle ==
    /\ last.msg = "WM_PAINT" /\ last.res = E_OTHER
    /\ ResultsIn(calls, "ReleaseFrame", E_OTHER) # {}
    /\ state.duplication = Idle

\* ---------------------------------------------------------------------- C15
\* C15: a tick whose acquired frame has present-time zero issues no call of the frame
\* pipeline, creates and touches no size-dependent resource, and releases the frame
\* exactly once.
C15_Step ==
    last'.msg = "WM_PAINT" /\ last'.arg = "zero_present_time"
    /\ ResultsIn(calls', "AcquireNextFrame", OK) # {} =>
        /\ NoPipelineCall(calls')
        /\ Cardinality(CallsIn(calls', "ReleaseFrame")) = 1
        /\ \A i \in CallsIn(calls', "ReleaseFrame") :
              \A j \in CallsIn(calls', "AcquireNextFrame") : j < i
        /\ [state' EXCEPT !.duplication = None] = [Aged(state) EXCEPT !.duplication = None]
        /\ gpu' = gpu
C15_ZeroPresentTimeSkips == [][C15_Step]_vars

\* A released zero-present-time frame in a session that has every resource.
C15_SkippedAndReleased ==
    /\ last.msg = "WM_PAINT" /\ last.arg = "zero_present_time" /\ last.res = OK
    /\ ResultsIn(calls, "ReleaseFrame", OK) # {}
    /\ AllPresent

\* ---------------------------------------------------------------------- C16
\* The creations of size-dependent resources inside a frame.
CreationPoints ==
    {"CreateTexture2D(staging)", "CreateTexture2D(extended)", "CreateUnorderedAccessView",
     "CreateShaderResourceView(extended)", "CreateShaderResourceView(staging)"}
CreationFailed(log) ==
    \E i \in DOMAIN log : log[i][1] \in CreationPoints /\ log[i][2] = E_OTHER

\* C16: in a session that has its render-target view, a tick in which the creation of
\* a size-dependent resource fails returns the error, draws and presents nothing and
\* leaves the session running; the paint tick after it does not crash and, when it
\* gets a frame and no call fails, creates what is missing and presents the frame.
C16_Step ==
    /\ last'.msg = "WM_PAINT" /\ CreationFailed(calls') =>
          /\ last'.res = E_OTHER /\ run' = "running"
          /\ CallsIn(calls', "Draw") = {} /\ CallsIn(calls', "Present") = {}
    /\ last.msg = "WM_PAINT" /\ CreationFailed(calls) /\ IsSome(state.render_target_view)
       /\ last'.msg = "WM_PAINT" =>
          /\ run' = "running"
          /\ last'.arg = "frame" /\ (\A i \in DOMAIN calls' : calls'[i][2] = OK) =>
                ResultsIn(calls', "Present", OK) # {}
C16_CreationFailureSurvived == [][C16_Step]_vars

\* ---------------------------------------------------------------------- C17
\* The members of the session other than the duplication handle and the textures'
\* content.
Settings(st) == <<st.current_shader, st.paused, st.always_on_top, st.source_rect>>

\* C17: when Present fails with access-lost the tick ends with that error and the
\* duplication handle is dropped, while every size-dependent resource stays present
\* and the effect, the flags and the source rectangle are unchanged; when Present
\* fails with another error the tick ends with that error and the handle stays.
C17_Step ==
    /\ ResultsIn(calls', "Present", ACCESS_LOST) # {} =>
          /\ last'.res = ACCESS_LOST /\ run' = "running"
          /\ IsNone(state'.duplication)
          /\ \A i \in 1..5 : IsSome(SizeSet(state')[i])
          /\ \A i \in 1..5 : IsSome(SizeSet(state)[i]) =>
                Dims(SizeSet(state')[i]) = Dims(SizeSet(state)[i])
          /\ Settings(state') = Settings(state)
          /\ window' = window
    /\ ResultsIn(calls', "Present", E_OTHER) # {} =>
          /\ last'.res = E_OTHER /\ run' = "running"
          /\ state'.duplication = Idle
          /\ \A i \in 1..5 : IsSome(SizeSet(state')[i])
          /\ Settings(state') = Settings(state)
C17_PresentFailure == [][C17_Step]_vars

\* Present has failed with access-lost: no handle, every resource still there.
C17_PresentLost ==
    /\ last.msg = "WM_PAINT"
    /\ ResultsIn(calls, "Present", ACCESS_LOST) # {}
    /\ IsNone(state.duplication)
    /\ AllPresent

\* ---------------------------------------------------------------------- C18
\* The commands that select an effect, and the index each one asks for.
EffectIds == ID_SHADER_BASE..(ID_SHADER_END - 1)
IndexOf(accel_id) == accel_id - ID_SHADER_BASE

\* C18: a command that selects an index at or beyond the roster length leaves the
\* active effect and the rest of the session, the window and the GPU bindings
\* unchanged, issues no call and is not an error.
C18_Step ==
    last'.msg = "WM_COMMAND" /\ last'.arg \in EffectIds /\ IndexOf(last'.arg) >= RosterLen =>
        /\ state' = Aged(state)
        /\ window' = window /\ gpu' = gpu /\ run' = run
        /\ calls' = <<>> /\ last'.res = OK
C18_OutOfRangeIgnored == [][C18_Step]_vars

\* An out-of-range selection made after an effect other than the initial one was
\* chosen and a frame was drawn with it.
C18_IgnoredSelection ==
    /\ last.msg = "WM_COMMAND" /\ last.arg = ID_SHADER_BASE + RosterLen
    /\ state.current_shader = 0
    /\ AllPresent

\* ---------------------------------------------------------------------- C19
\* C19: the active index starts at 1 and is always within the roster; the command of
\* digit d, 1 <= d <= roster length, sets it to d - 1 in that one step and changes
\* nothing else of the session, the window or the GPU bindings, so that the same
\* digit pressed again changes nothing.
C19_Step ==
    \A d \in 1..RosterLen :
        last'.msg = "WM_COMMAND" /\ last'.arg = ID_SHADER_BASE + d - 1 =>
            /\ state' = [Aged(state) EXCEPT !.current_shader = d - 1]
            /\ state.current_shader = d - 1 => state' = Aged(state)
            /\ window' = window /\ gpu' = gpu /\ run' = run
C19_OneActiveEffect ==
    /\ state.current_shader = 1
    /\ [](state.current_shader \in 0..(RosterLen - 1))
    /\ [][C19_Step]_vars

\* The last effect of the roster selected by its digit.
C19_LastEffectSelected ==
    /\ last.msg = "WM_COMMAND" /\ last.arg = ID_SHADER_BASE + RosterLen - 1
    /\ state.current_shader = RosterLen - 1

\* ---------------------------------------------------------------------- C20
\* C20: a paint event taken while paused issues no call at all and changes nothing of
\* the session, the window or the GPU bindings; a paint event taken while not paused,
\* the first one after resume included, attempts an acquisition.
C20_Step ==
    /\ state.paused /\ last'.msg = "WM_PAINT" =>
          /\ calls' = <<>>
          /\ state' = Aged(state)
          /\ window' = window /\ gpu' = gpu /\ run' = run
          /\ last'.res = OK
    /\ ~state.paused /\ last'.msg = "WM_PAINT" =>
          CallsIn(calls', "AcquireNextFrame") # {}
C20_PausedPaintDoesNothing == [][C20_Step]_vars

\* A paint event of a paused session that has every resource.
C20_PaintWhilePaused ==
    /\ state.paused /\ last.msg = "WM_PAINT" /\ calls = <<>>
    /\ AllPresent

\* ------------------------------------------------------------ C21 .. C30
\* ---------------------------------------------------------------------- C21
\* C21: in every reachable state the window is capturable (affinity cleared) exactly
\* when the session is paused, and excluded from capture exactly when it is not, also
\* after a pause toggle whose affinity call failed.
C21_AffinityFollowsPause ==
    /\ state.paused <=> window.affinity = WDA_NONE
    /\ ~state.paused <=> window.affinity = WDA_EXCLUDEFROMCAPTURE

\* ---------------------------------------------------------------------- C22
\* The GPU resources of the session: the duplication handle, the size-dependent set
\* and the staging view.
Resources(st) == <<st.duplication, SizeSet(st), st.shader_resource_view>>
IsPauseToggle(l) == l.msg = "WM_COMMAND" /\ l.arg = ID_TOGGLE_PAUSE

\* C22 as stated: the pause toggle, and every event processed while paused (paint,
\* move, resize, command), leave the duplication handle and every member of the
\* size-dependent set as they were.
C22_AllEventsStep ==
    IsPauseToggle(last') \/ state.paused => Resources(state') = Resources(Aged(state))
C22_NothingReleasedWhilePaused == [][C22_AllEventsStep]_vars

\* C22 amended: the pause toggle, and every paint, move and command processed while
\* paused, leave the duplication handle and the size-dependent set as they were; a
\* resize processed while paused keeps the duplication handle but invalidates the
\* size-dependent set as it does when not paused.
C22_Step ==
    /\ IsPauseToggle(last') \/ (state.paused /\ last'.msg # "WM_SIZE") =>
          Resources(state') = Resources(Aged(state))
    /\ state.paused /\ last'.msg = "WM_SIZE" =>
          /\ state'.duplication = state.duplication
          /\ \A i \in 1..4 : IsNone(LazyMembers(state')[i])
C22_ReleasedOnlyByResize == [][C22_Step]_vars

\* Right after pausing a session that has its handle and every resource.
C22_PausedWithResources ==
    /\ IsPauseToggle(last) /\ state.paused
    /\ state.duplication = Idle
    /\ AllPresent

\* ---------------------------------------------------------------------- C23
\* What a paint tick reads of the session.
PaintView(st) ==
    <<st.paused, st.duplication, st.current_shader, st.source_rect, SizeSet(st),
      st.shader_resource_view>>
UserActions == {ID_SAVE, ID_ALWAYS_ON_TOP, ID_TOGGLE_PAUSE}
ActionFailed(log) == \E i \in DOMAIN log : log[i][2] = E_OTHER

\* C23: a user action (save, always-on-top, pause) that fails returns normally and
\* leaves the session running, and leaves everything the next paint tick reads (pause
\* flag, duplication, effect, source rectangle, resources, bindings, window size) as
\* it was, so that the tick runs as if the action had not been attempted.
C23_Step ==
    last'.msg = "WM_COMMAND" /\ last'.arg \in UserActions /\ ActionFailed(calls') =>
        /\ last'.res = OK /\ run' = run
        /\ PaintView(state') = PaintView(Aged(state))
        /\ gpu' = gpu
        /\ window'.client = window.client /\ window'.origin = window.origin
C23_FailedActionChangesNothing == [][C23_Step]_vars

\* ---------------------------------------------------------------------- C24
\* C24: the always-on-top command changes the always_on_top flag and the window's
\* z-order only: pause flag, effect, duplication, source rectangle and resources, the
\* window's affinity, size and origin, and the GPU bindings are unchanged.
C24_Step ==
    last'.msg = "WM_COMMAND" /\ last'.arg = ID_ALWAYS_ON_TOP =>
        /\ state' = [Aged(state) EXCEPT !.always_on_top = ~state.always_on_top]
        /\ window' = [window EXCEPT !.topmost = window'.topmost]
        /\ gpu' = gpu /\ run' = run
C24_TopmostOnly == [][C24_Step]_vars

\* The window was made topmost in a session with a handle and every resource.
C24_MadeTopmost ==
    /\ last.msg = "WM_COMMAND" /\ last.arg = ID_ALWAYS_ON_TOP
    /\ state.always_on_top /\ window.topmost
    /\ state.duplication = Idle /\ AllPresent

\* ---------------------------------------------------------------------- C25
\* The window's client rectangle in screen coordinates.
Placement(win) ==
    [left |-> win.origin[1], top |-> win.origin[2],
     right |-> win.origin[1] + win.client[1], bottom |-> win.origin[2] + win.client[2]]
ParamsIn(log) == log[CHOOSE i \in CallsIn(log, "Dispatch") : TRUE][3]

\* C25: after every move or resize event the source rectangle is the window's client
\* rectangle translated by the client origin; it stays so through paint ticks, and a
\* paint tick computes its overhang from the window placement of the last such event.
C25_Step ==
    /\ last'.msg \in {"WM_SIZE", "WM_MOVE"} => state'.source_rect = Placement(window')
    /\ state.source_rect = Placement(window) /\ last'.msg = "WM_PAINT" =>
          /\ state'.source_rect = Placement(window')
          /\ CallsIn(calls', "Dispatch") # {} =>
                /\ ParamsIn(calls').src_offset =
                      <<Max(0 - window.origin[1], 0), Max(0 - window.origin[2], 0)>>
                /\ ParamsIn(calls').dst_size[1] = window.client[1]
                      + Max(0 - window.origin[1], 0)
                      + Max(window.origin[1] + window.client[1] - ScreenW, 0)
Ensured(st) ==
    [staging |-> [res |-> st.staging_texture, point |-> "CreateTexture2D(staging)"],
     extended |-> [res |-> st.extended_texture, point |-> "CreateTexture2D(extended)"],
     staging_srv |-> [res |-> st.shader_resource_view,
                      point |-> "CreateShaderResourceView(staging)"]]

\* C27: a paint tick that finds the staging texture, the extended texture or the
\* staging view present issues no allocation for it and leaves it in place with its
\* size; a tick allocates each at most once; and nothing but a resize event makes a
\* present resource absent. Hence each is allocated at most once between two resizes.
C27_Step ==
    \A k \in DOMAIN Ensured(state) :
        LET old == Ensured(state)[k]
            new == Ensured(state')[k]
        IN /\ last'.msg = "WM_PAINT" =>
                 /\ Cardinality(CallsIn(calls', old.point)) <= 1
                 /\ IsSome(old.res) =>
                       /\ CallsIn(calls', old.point) = {}
                       /\ IsSome(new.res) /\ Dims(new.res) = Dims(old.res)
           /\ last'.msg # "WM_SIZE" /\ IsSome(old.res) => IsSome(new.res)
           /\ last'.msg # "WM_PAINT" => CallsIn(calls', old.point) = {}
C27_AllocatedOncePerResize == [][C27_Step]_vars

\* A frame composited without any allocation: everything was found present.
C27_FoundPresent ==
    /\ Composited /\ AllPresent
    /\ \A p \in CreationPoints : CallsAt(p) = {}

\* ---------------------------------------------------------------------- C28
\* The steps of a compositing tick, by the call each one issues, in program order.
TickSteps ==
    <<"AcquireNextFrame", "CopySubresourceRegion", "Dispatch", "Map(time)",
      "ClearRenderTargetView", "Draw", "Present", "ReleaseFrame">>

\* C28: a paint tick that composites a frame issues acquire, copy, extend pass, time
\* update, clear, draw, present and release in this order, each once (the copy is left
\* out when no part of the window is on screen), the release is the last call of the
\* tick, and the tick ends with no frame held.
C28_OrderedTick ==
    Composited =>
        /\ \A i \in DOMAIN TickSteps :
              Cardinality(CallsAt(TickSteps[i])) = 1
                  \/ (TickSteps[i] = "CopySubresourceRegion" /\ CallsAt(TickSteps[i]) = {})
        /\ \A i, j \in DOMAIN TickSteps :
              i < j => \A a \in CallsAt(TickSteps[i]), b \in CallsAt(TickSteps[j]) : a < b
        /\ CallsAt("ReleaseFrame") = {Len(calls)}
        /\ IsNone(state.duplication) \/ ~Unwrap(state.duplication).held

\* A compositing tick that issued all eight steps.
C28_FullTick ==
    /\ Composited
    /\ \A i \in DOMAIN TickSteps : CallsAt(TickSteps[i]) # {}
    /\ calls[Len(calls)] = <<"ReleaseFrame", OK>>

\* ---------------------------------------------------------------------- C26
\* The compilations that make up the effect roster.
RosterCompiles ==
    {"compile_pixel_shader(passthru)", "compile_pixel_shader(wobbly)",
     "compile_pixel_shader(lightning)", "compile_pixel_shader(sorty)",
     "compile_pixel_shader_sm5(tiles)"}
FailedStartup(log) ==
    \E i \in DOMAIN log : log[i][1] # "RegisterClassExW" /\ log[i][2] # OK

\* C26: a failing startup call (any but the class registration, whose failure makes the
\* window creation fail) ends the process at once with a non-zero status; the message
\* loop starts only after every call succeeded; and the session is installed on the
\* window only after all five effects of the roster compiled.
C26_Step ==
    /\ run = "starting" /\ FailedStartup(calls') =>
          /\ run' = "exited"
          /\ last'.msg = "exit" /\ last'.arg # EXIT_SUCCESS
          /\ state' = state
    /\ run = "starting" /\ run' = "exited" => FailedStartup(calls')
    /\ run = "starting" /\ run' = "running" =>
          /\ Len(calls') = Len(StartupSteps)
          /\ \A i \in DOMAIN calls' : calls'[i][2] = OK
    /\ IsNone(state) /\ IsSome(state') =>
          /\ run = "starting"
          /\ \A p \in RosterCompiles : ResultsOf(calls', p) = {OK}
          /\ Cardinality(RosterCompiles) = RosterLen
C26_StartupFailureIsFatal == [][C26_Step]_vars

\* The third simple effect failed to compile: main panicked before a session existed.
C26_EffectFailedToCompile ==
    /\ run = "exited" /\ last.msg = "exit" /\ last.arg = EXIT_PANIC
    /\ IsNone(state)
    /\ ResultsOf(calls, "compile_pixel_shader(lightning)") = {E_OTHER}
    /\ ResultsOf(calls, "compile_pixel_shader(wobbly)") = {OK}

\* ---------------------------------------------------------------------- C29
\* C29 as stated: the destroy event posts the quit message and nothing else is done
\* before the loop ends; when the loop has ended on the quit message the session has
\* been torn down and the exit status is 0.
C29_CleanShutdown ==
    /\ last.msg = "WM_DESTROY" => run = "quit" /\ calls = <<<<"PostQuitMessage", OK>>>>
    /\ run = "quit" => last.msg = "WM_DESTROY"
    /\ last.msg = "exit" /\ last.res = "WM_QUIT" =>
          /\ run = "exited"
          /\ last.arg = EXIT_SUCCESS
          /\ IsNone(state)

\* ---------------------------------------------------------------------- C30
\* The luma of the sheet's pixels at the <<column, row>> positions in S (0-based),
\* summed, as a multiple of 1 / (1000 * 255).
RECURSIVE LumaOver(_)
LumaOver(S) ==
    IF S = {} THEN 0
    ELSE LET p == CHOOSE q \in S : TRUE
             at == (p[2] * state.width + p[1]) * 4
             Blue == state.pixels[at + 1]
             Green == state.pixels[at + 2]
             Red == state.pixels[at + 3]
         IN LumaR * Red + LumaG * Green + LumaB * Blue + LumaOver(S \ {p})

\* C30: for a sheet of W x H pixels and tiles of tw x th the lookup has exactly
\* (W div tw) * (H div th) entries; the entry of the tile in column c and row r is at
\* index r * (W div tw) + c and is the luma 0.299 R + 0.587 G + 0.114 B with R, G, B in
\* [0,1], averaged over the tw * th pixels of that tile; it lies in [0,1].
C30_TileBrightness ==
    last.msg = "compute_tile_brightness" =>
        LET cols == state.width \div state.tile_width
            rows == state.height \div state.tile_height
        IN /\ Len(calls) = cols * rows
           /\ \A tile_row \in 0..(rows - 1), tile_col \in 0..(cols - 1) :
                 LET entry == calls[tile_row * cols + tile_col + 1]
                     left == tile_col * state.tile_width
                     top == tile_row * state.tile_height
                     TilePixels == (left..(left + state.tile_width - 1))
                                       \X (top..(top + state.tile_height - 1))
                 IN /\ entry.num = LumaOver(TilePixels)
                    /\ entry.den = 1000 * ChannelMax * (state.tile_width * state.tile_height)
                    /\ 0 <= entry.num /\ entry.num <= entry.den

\* A sheet three pixels wide cut into tiles two pixels wide: two rows of one tile, the
\* third column left out, a tile with one red pixel above a tile with one blue pixel.
C30_PartialColumn ==
    /\ last.msg = "compute_tile_brightness"
    /\ state.width = 3 /\ state.tile_width = 2 /\ state.height = 2 /\ state.tile_height = 1
    /\ Len(calls) = 2
    /\ calls[1].num = LumaR * ChannelMax
    /\ calls[2].num = LumaB * ChannelMax

\* ---------------------------------------------------------------------- C31
\* A paint tick that got as far as the render setup: the time buffer was updated.
ReachedRenderSetup == last.msg = "WM_PAINT" /\ ResultsIn(calls, "Map(time)", OK) # {}

\* C31 as stated: whenever a paint tick reaches the render setup of a frame the
\* render-target view is present and the tick does not panic on its unwrap.
C31_RenderTargetPresent ==
    ReachedRenderSetup =>
        /\ IsSome(state.render_target_view)
        /\ CallsAt("GetClientRect(viewport)") # {}

C33_DispatchCoversExtended ==
    Composited =>
        LET params == DispatchParams
            groups == DispatchCall[4]
        IN /\ groups = <<DivCeil(params.dst_size[1], GroupSize),
                         DivCeil(params.dst_size[2], GroupSize)>>
           /\ params.src_size = <<Staging.w, Staging.h>>
           /\ \A p \in DOMAIN Extended.px :
                 /\ p[1] < GroupSize * groups[1] /\ p[2] < GroupSize * groups[2]
                 /\ p[1] < params.dst_size[1] /\ p[2] < params.dst_size[2]
                 /\ Extended.px[p] =
                       Staging.px[<<Clamp(p[1] - params.src_offset[1], 0, Staging.w - 1),
                                    Clamp(p[2] - params.src_offset[2], 0, Staging.h - 1)>>]

\* ---------------------------------------------------------------------- C34
\* C34: a paint tick that draws leaves pixel-shader constant slot 0 holding the time
\* buffer when the active effect is a simple one and the tile constants when it is the
\* tile effect; in particular a draw that starts with the tile constants still in the
\* slot and a simple effect active ends with the time buffer in it.
C34_Step ==
    last'.msg = "WM_PAINT" /\ CallsIn(calls', "Draw") # {} =>
        /\ state'.current_shader = state.current_shader
        /\ ShaderType(state.current_shader) = "Simple" => gpu'.ps_cb0 = "time"
        /\ ShaderType(state.current_shader) = "Tiles" => gpu'.ps_cb0 = "tiles"
C34_ConstantSlotFollowsEffect == [][C34_Step]_vars

\* The tile effect has drawn and a simple effect was selected after it.
C34_SwitchedBackFromTiles ==
    /\ last.msg = "WM_COMMAND"
    /\ ShaderType(state.current_shader) = "Simple"
    /\ gpu.ps_cb0 = "tiles"
    /\ IsSome(state.render_target_view) /\ AllPresent /\ ~state.paused

\* ---------------------------------------------------------------------- C35
\* C35: at every compute dispatch pixel-shader resource slot 0 is unbound while the
\* extended texture's output view is bound to the compute stage, and at every draw
\* the compute shader, its input view and its output view are unbound while the
\* extended texture's input view is bound to the pixel shader.
C35_NoBindingHazard ==
    /\ \A i \in CallsAt("Dispatch") :
          /\ IsNone(calls[i][5].ps_srv0)
          /\ calls[i][5].cs_shader /\ IsSome(calls[i][5].cs_uav0)
    /\ \A i \in CallsAt("Draw") :
          /\ ~calls[i][3].cs_shader
          /\ IsNone(calls[i][3].cs_srv0) /\ IsNone(calls[i][3].cs_uav0)
          /\ IsSome(calls[i][3].ps_srv0)
    /\ run # "aborted" => ~gpu.cs_shader /\ IsNone(gpu.cs_srv0) /\ IsNone(gpu.cs_uav0)

\* A frame of the tile effect composited with the textures of an earlier frame, whose
\* draw had left the extended texture bound as pixel-shader input.
C35_LaterFrame ==
    /\ Composited
    /\ CallsAt("CreateTexture2D(extended)") = {}
    /\ IsNone(DispatchCall[5].ps_srv0)
    /\ ShaderType(state.current_shader) = "Tiles"
    /\ IsSome(gpu.ps_srv0)

\* ---------------------------------------------------------------------- C36
\* The cached views, each with its texture and the calls that create the two.
CachedViews(st) ==
    <<[view |-> st.shader_resource_view, of |-> st.staging_texture,
       create |-> "CreateShaderResourceView(staging)", texture |-> "CreateTexture2D(staging)"],
      [view |-> st.extended_srv, of |-> st.extended_texture,
       create |-> "CreateShaderResourceView(extended)", texture |-> "CreateTexture2D(extended)"],
      [view |-> st.extended_uav, of |-> st.extended_texture,
       create |-> "CreateUnorderedAccessView", texture |-> "CreateTexture2D(extended)"]>>

\* C36: after every handler a cached view that is present has its texture present and
\* of the view's size, and a handler that allocated the texture also created the view;
\* so a present view is always a view of the current texture.
C36_Step ==
    \A k \in DOMAIN CachedViews(state) :
        LET old == CachedViews(state)[k]
            new == CachedViews(state')[k]
        IN IsSome(new.view) =>
              /\ IsSome(new.of) /\ Dims(new.view) = Dims(new.of)
              /\ IsNone(old.of) \/ ResultsIn(calls', new.texture, OK) # {} =>
                    ResultsIn(calls', new.create, OK) # {}
              /\ IsSome(old.of) => ResultsIn(calls', new.texture, OK) = {}
C36_ViewsOfCurrentTextures == [][C36_Step]_vars

\* A frame after a resize: the textures and all three views were created anew.
C36_RecreatedAfterResize ==
    /\ Composited
    /\ \A k \in DOMAIN CachedViews(state) :
          /\ IsSome(CachedViews(state)[k].view)
          /\ ResultsIn(calls, CachedViews(state)[k].create, OK) # {}
          /\ Dims(CachedViews(state)[k].of)[1] >= MaxClient

\* ---------------------------------------------------------------------- C37
\* C37: a paint tick whose DuplicateOutput fails issues no other call, attempts no
\* acquisition, ends with the error of DuplicateOutput and leaves the handle absent;
\* and every paint tick taken while the handle is absent and the session is not paused
\* starts with DuplicateOutput, so the tick after a failed creation tries it again.
C37_Step ==
    LET failed == \E i \in CallsIn(calls', "DuplicateOutput") : calls'[i][2] # OK
    IN /\ last'.msg = "WM_PAINT" /\ failed =>
             /\ Len(calls') = 1
             /\ CallsIn(calls', "AcquireNextFrame") = {}
             /\ last'.res = calls'[1][2]
             /\ IsNone(state'.duplication)
             /\ run' = run
       /\ last'.msg = "WM_PAINT" /\ IsNone(state.duplication) /\ ~state.paused =>
             Len(calls') >= 1 /\ calls'[1][1] = "DuplicateOutput"
       /\ last'.msg # "WM_PAINT" /\ IsNone(state.duplication) => IsNone(state'.duplication)
C37_CreationFailureRetried == [][C37_Step]_vars

\* A tick in which the creation failed, in a session that has composited before.
C37_CreationFailed ==
    /\ last.msg = "WM_PAINT" /\ last.res = E_OTHER
    /\ calls = <<<<"DuplicateOutput", E_OTHER>>>>
    /\ IsNone(state.duplication)
    /\ AllPresent

\* ---------------------------------------------------------------------- C38
\* C38 as stated: in every reachable state the always_on_top flag tells whether the
\* window is topmost.
C38_FlagIsTopmost == state.always_on_top <=> window.topmost

\* ---------------------------------------------------------------------- C39
\* The session after the command is handled twice in a row, both OS calls succeeding.
TwiceFrom(c, accel_id) ==
    LET c1 == OnCommand(c, accel_id, OK)
    IN OnCommand(Context(c1.state, c1.gpu, c1.window), accel_id, OK)

\* C39 as stated: from every state of a running session, toggling pause twice, or
\* always-on-top twice, both OS calls succeeding, gives back the session, the window
\* and the GPU bindings of before the first toggle.
C39_ToggleTwiceRestores ==
    run = "running" =>
        \A accel_id \in {ID_TOGGLE_PAUSE, ID_ALWAYS_ON_TOP} :
            LET c == Context(state, gpu, window)
                c2 == TwiceFrom(c, accel_id)
            IN /\ c2.res = OK
               /\ c2.state = c.state
               /\ c2.window = c.window
               /\ c2.gpu = c.gpu

====
